---- MODULE Spec2Model ----
(***************************************************************************)
(* Authorization core of the control-plane API: the JWT authentication     *)
(* hook (src/middleware/auth.ts), the RBAC hook with its permission table, *)
(* request classifier and tenant access check (src/middleware/rbac.ts),    *)
(* the token payload built at login (src/routes/auth.ts) and the tenant    *)
(* status route (src/routes/tenants.ts).                                   *)
(*                                                                         *)
(* The hooks are modelled as applying to every route registered in the     *)
(* protected scope of buildServer (app registration), which is what the    *)
(* middleware and the tests assume.                                        *)
(*                                                                         *)
(* Spec        one request at a time through auth hook -> RBAC hook ->     *)
(*             route handler, over a membership table fixed per behaviour  *)
(*             (membership writes happen outside the core).                *)
(* SpecAccess  checkTenantAccess as a function of the membership table,    *)
(*             which the environment extends and shrinks.                  *)
(* SpecToken   a client logs in (src/routes/auth.ts), keeps the signed     *)
(*             token and sends requests with it while memberships are      *)
(*             granted and revoked underneath.                             *)
(* SpecClassify  getRequiredPermission over methods and paths.             *)
(* SpecUsage   POST /usage/record (src/routes/usage.ts), two handlers in   *)
(*             flight, each awaiting findFirst and then update or create.  *)
(* SpecAuth    POST /auth/login and GET /auth/me (src/routes/auth.ts).     *)
(* SpecPartners  POST /partners (src/routes/partners.ts).                  *)
(* SpecTenants POST /tenants (src/routes/tenants.ts), two requests in      *)
(*             flight between the tenant count and the create.             *)
(* SpecDomains the list, resolve, update and verify routes of              *)
(*             src/routes/domains.ts.                                      *)
(* SpecPlans   POST /plans/attach, two requests in flight between          *)
(*             updateMany and create.                                      *)
(***************************************************************************)
EXTENDS Integers, Sequences, FiniteSets, TLC

VARIABLES
    memberships,   \* membership table, rows in persisted order
    tenantStatus,  \* tenant id -> status (persisted)
    pc,            \* position of the request in flight: idle, rbac, handler, done
    req,           \* the request: method, url, kind of Authorization header
    user,          \* request.user (JWT payload) or NoUser
    context,       \* request.context.tenant_id or NoTenant
    reply,         \* the reply sent: status, code, message
    decision,      \* NONE, ALLOW or DENY: outcome of the two hooks
    lookups,       \* membership queries issued by the RBAC hook for this request
    dbFailed,      \* a membership query of this request threw
    handlerRan,    \* the route handler (or its preHandler) was entered
    call,          \* SpecAccess: the checkTenantAccess call made on the current
                   \* table and its result, NoCall after the table changed
    adminEmail,    \* appConfig.admin.email
    token,         \* the JWT the client holds since its last login, or NoToken
    issued,        \* who logged in for that token and the table login read
    prior,         \* the first request the client made with that token and
                   \* the decision it got, or NoPrior
    usageCounters, \* usage_counters table, rows in insertion order
    recorder,      \* POST /usage/record handlers in flight: position and locals
    recorded,      \* values of the record calls that have replied 201
    partners,      \* partners table, rows in insertion order
    tenantCount,   \* partner id -> number of rows of the tenants table
    domains,       \* domains table, rows in insertion order
    tenantPlans,   \* tenant_plans table, rows in insertion order
    handlers       \* requests in flight on the resource routes: position in
                   \* the route's lifecycle, request, reply and handler locals

vars == <<memberships, tenantStatus, pc, req, user, context, reply, decision,
          lookups, dbFailed, handlerRan, call, adminEmail, token, issued, prior,
          usageCounters, recorder, recorded,
          partners, tenantCount, domains, tenantPlans, handlers>>

sessionVars == <<adminEmail, token, issued>>

usageVars == <<usageCounters, recorder, recorded>>

resourceVars == <<partners, tenantCount, domains, tenantPlans, handlers>>

pipelineVars == <<pc, req, user, context, reply, decision, lookups, dbFailed, handlerRan>>

-----------------------------------------------------------------------------
(* Bounds *)

MaxRows == 1         \* rows of the membership table in Spec
MaxAccessRows == 2   \* rows of the membership table in SpecAccess
MaxUsage == 5        \* usage recorded per key before further records are held back

-----------------------------------------------------------------------------
(* Roles, permissions, data *)

PLATFORM_ADMIN == "PLATFORM_ADMIN"
PARTNER_ADMIN == "PARTNER_ADMIN"
TENANT_ADMIN == "TENANT_ADMIN"
TENANT_USER == "TENANT_USER"

Roles == {PLATFORM_ADMIN, PARTNER_ADMIN, TENANT_ADMIN, TENANT_USER}

\* A role claim that is none of the enum values (a token signed with the
\* shared secret by another issuer of the platform).
OtherRole == "SERVICE"

Permissions ==
    {"partners:read", "partners:write", "partners:delete",
     "tenants:read", "tenants:write", "tenants:delete",
     "plans:read", "plans:write",
     "domains:read", "domains:write", "domains:verify",
     "usage:read",
     "system:read", "system:write"}

NoPermission == "null"

AdminEmail == "admin@avantle.ai"

MemberUsers == {"u1", "u2"}

UserEmail(u) == IF u = "u0" THEN AdminEmail ELSE u \o "@example.com"

TenantIds == {"t1", "t2", "t3"}

\* tenant.partner_id: partner p1 owns t1 and t2, partner p2 owns t3
TenantPartner == [t \in TenantIds |-> IF t = "t3" THEN "p2" ELSE "p1"]

NoTenant == "undefined"

Rows == [user_id : MemberUsers, tenant_id : TenantIds, role : Roles]

NoRow == [user_id |-> "", tenant_id |-> "", role |-> ""]

\* @@unique([user_id, tenant_id]) of the membership table
UniquePairs(table) ==
    \A i, j \in 1..Len(table) :
        (table[i].user_id = table[j].user_id /\ table[i].tenant_id = table[j].tenant_id)
            => i = j

RECURSIVE TablesOfLen(_)
TablesOfLen(n) ==
    IF n = 0 THEN {<<>>}
    ELSE {Append(t, r) : t \in TablesOfLen(n - 1), r \in Rows}

RECURSIVE TablesUpTo(_)
TablesUpTo(n) ==
    IF n = 0 THEN {<<>>}
    ELSE TablesUpTo(n - 1) \cup {t \in TablesOfLen(n) : UniquePairs(t)}

-----------------------------------------------------------------------------
(* Strings *)

StartsWith(s, prefix) ==
    Len(s) >= Len(prefix) /\ SubSeq(s, 1, Len(prefix)) = prefix

Includes(s, sub) ==
    \E i \in 1..(Len(s) - Len(sub) + 1) : SubSeq(s, i, i + Len(sub) - 1) = sub

Min(S) == CHOOSE x \in S : \A y \in S : x <= y

\* url.match(/^\/tenants\/([^\/]+)/): the capture group, or NoTenant
TenantMatch(url) ==
    LET start == Len("/tenants/") + 1
        slashes == {j \in start..Len(url) : SubSeq(url, j, j) = "/"}
        stop == IF slashes = {} THEN Len(url) ELSE Min(slashes) - 1
    IN  IF StartsWith(url, "/tenants/") /\ stop >= start
        THEN SubSeq(url, start, stop)
        ELSE NoTenant

-----------------------------------------------------------------------------
(* Login: the token payload *)

UserMemberships(table, userId) ==
    SelectSeq(table, LAMBDA m : m.user_id = userId)

PrimaryRole(email, ms) ==
    IF email = AdminEmail THEN PLATFORM_ADMIN
    ELSE IF Len(ms) > 0 THEN ms[1].role
    ELSE TENANT_USER

TenantContextOf(ms) ==
    [i \in 1..Len(ms) |-> [tenant_id |-> ms[i].tenant_id, role |-> ms[i].role]]

JwtPayload(table, userId) ==
    LET ms == UserMemberships(table, userId)
    IN  [sub |-> userId,
         email |-> UserEmail(userId),
         role |-> PrimaryRole(UserEmail(userId), ms),
         tenant_context |-> TenantContextOf(ms)]

NoUser == [sub |-> "", email |-> "", role |-> "", tenant_context |-> <<>>]

\* sign.issuer of the jwt plugin
JwtIssuer == "core.avantle.ai"

\* The value of claim name in a list of <<name, value>> pairs, "" if absent
Claim(claims, name) ==
    LET at == {i \in 1..Len(claims) : claims[i][1] = name}
    IN  IF at = {} THEN "" ELSE claims[Min(at)][2]

JwtSignFirstContextOnly(payload) ==
    [claims |-> <<<<"sub", payload.sub>>, <<"email", payload.email>>,
                  <<"role", payload.role>>,
                  <<"tenant_context",
                    SubSeq(payload.tenant_context, 1, Min({1, Len(payload.tenant_context)}))>>,
                  <<"iss", JwtIssuer>>>>,
     sig |-> "good"]

\* reply.jwtSign(jwtPayload): the claims serialised in order, with the issuer
\* claim the plugin adds, and a signature made with the server secret
JwtSign(payload) ==
    [claims |-> <<<<"sub", payload.sub>>, <<"email", payload.email>>,
                  <<"role", payload.role>>,
                  <<"tenant_context", payload.tenant_context>>,
                  <<"iss", JwtIssuer>>>>,
     sig |-> "good"]

\* The JWTPayload read back from the claims of a token
JwtDecode(claims) ==
    [sub |-> Claim(claims, "sub"),
     email |-> Claim(claims, "email"),
     role |-> Claim(claims, "role"),
     tenant_context |-> Claim(claims, "tenant_context")]

NoToken == [claims |-> <<>>, sig |-> ""]

NoIssue == [userId |-> "", memberships |-> <<>>]

NoPrior == [method |-> "", url |-> "", decision |-> "NONE",
            lookupFailed |-> FALSE, tableChanged |-> FALSE]

\* No client session: nobody has logged in
NoSession ==
    /\ token = NoToken
    /\ issued = NoIssue
    /\ prior = NoPrior

\* Requests to POST /usage/record that can be in flight at the same time
Recorders == {"r1", "r2"}

\* Counter keys (tenant_id, product_key, environment, metric_key, period_start)
UsageKeys == {"k1", "k2"}

NoReply == [status |-> 0, code |-> "", message |-> ""]

Reply(status, code, message) == [status |-> status, code |-> code, message |-> message]

\* setErrorHandler: the reply for an error thrown by a hook or a handler.
\* ZodError, PrismaClientKnownRequestError by code, anything else without a
\* statusCode
ErrorHandler(error) ==
    CASE error = "ZodError" -> Reply(400, "VALIDATION_ERROR", "Validation failed")
      [] error = "P2002" -> Reply(409, "RESOURCE_ALREADY_EXISTS", "Resource already exists")
      [] error = "P2025" -> Reply(404, "RESOURCE_NOT_FOUND", "Resource not found")
      [] error = "P2003" -> Reply(400, "RESOURCE_CONFLICT", "Foreign key constraint failed")
      [] OTHER -> Reply(500, "INTERNAL_SERVER_ERROR", "Internal server error")

PartnerIds == {"p1", "p2"}

\* Request body or query string; "" stands for a field that was not sent
NoBody == [email |-> "", password |-> "", name |-> "", billing_email |-> "",
           partner_id |-> "", tenant_id |-> "", plan_id |-> "", hostname |-> "",
           status |-> ""]

\* A slot with no request in flight
NoHandler == [pc |-> "idle", method |-> "", url |-> "", auth |-> "", user |-> NoUser,
              tokenRole |-> "", tokenTenants |-> {}, body |-> NoBody, reply |-> NoReply,
              token |-> NoToken, data |-> <<>>, count |-> 0, wrote |-> FALSE]

HandlerIds == {"h1", "h2"}

\* Partners as seeded: both ACTIVE, each with its own billing_email
SeedPartners ==
    <<[id |-> "p1", billing_email |-> "billing@p1.example", status |-> "ACTIVE"],
      [id |-> "p2", billing_email |-> "billing@p2.example", status |-> "ACTIVE"]>>

\* partner._count.tenants over the tenants t1, t2, t3
SeedTenantCount == [p \in PartnerIds |-> Cardinality({t \in TenantIds : TenantPartner[t] = p})]

\* The seeded tables and no request in flight on the resource routes
ResourcesIdle ==
    /\ partners = SeedPartners
    /\ tenantCount = SeedTenantCount
    /\ domains = <<>>
    /\ tenantPlans = <<>>
    /\ handlers = [p \in HandlerIds |-> NoHandler]

\* A handler of POST /usage/record that is not running; existingId = 0 stands
\* for existingCounter = null
NoRecorder == [pc |-> "idle", key |-> "", value |-> 0, existingId |-> 0,
               existingValue |-> 0, status |-> 0]

\* No usage recorded and no record request in flight
UsageIdle ==
    /\ usageCounters = <<>>
    /\ recorder = [p \in Recorders |-> NoRecorder]
    /\ recorded = [k \in UsageKeys |-> 0]

-----------------------------------------------------------------------------
(* RBAC: rule table, classifier, tenant access check *)

AccessRulesTenantUserWrites ==
    [r \in Roles |->
        CASE r = PLATFORM_ADMIN -> Permissions
          [] r = PARTNER_ADMIN ->
                {"partners:read",
                 "tenants:read", "tenants:write",
                 "domains:read", "domains:write", "domains:verify",
                 "usage:read"}
          [] r = TENANT_ADMIN ->
                {"tenants:read",
                 "domains:read", "domains:write",
                 "usage:read"}
          [] r = TENANT_USER ->
                {"tenants:read", "tenants:write",
                 "usage:read"}]

\* const accessRules: role -> permissions
AccessRules ==
    [r \in Roles |->
        CASE r = PLATFORM_ADMIN ->
                {"partners:read", "partners:write", "partners:delete",
                 "tenants:read", "tenants:write", "tenants:delete",
                 "plans:read", "plans:write",
                 "domains:read", "domains:write", "domains:verify",
                 "usage:read",
                 "system:read", "system:write"}
          [] r = PARTNER_ADMIN ->
                {"partners:read",
                 "tenants:read", "tenants:write",
                 "domains:read", "domains:write", "domains:verify",
                 "usage:read"}
          [] r = TENANT_ADMIN ->
                {"tenants:read",
                 "domains:read", "domains:write",
                 "usage:read"}
          [] r = TENANT_USER ->
                {"tenants:read",
                 "usage:read"}]

IsWriteNoPatch(method) == method \in {"POST", "PUT"}

\* const isWrite = ['POST', 'PUT', 'PATCH'].includes(method)
IsWrite(method) == method \in {"POST", "PUT", "PATCH"}

GetRequiredPermissionAdminFirst(method, path) ==
    LET isWrite == IsWrite(method)
        isDelete == method = "DELETE"
    IN  IF StartsWith(path, "/partners")
        THEN (IF isDelete THEN "partners:delete"
              ELSE IF isWrite THEN "partners:write" ELSE "partners:read")
        ELSE IF StartsWith(path, "/tenants")
        THEN (IF isDelete THEN "tenants:delete"
              ELSE IF isWrite THEN "tenants:write" ELSE "tenants:read")
        ELSE IF StartsWith(path, "/plans")
        THEN (IF isWrite THEN "plans:write" ELSE "plans:read")
        ELSE IF StartsWith(path, "/domains")
        THEN (IF Includes(path, "/verify") THEN "domains:verify"
              ELSE IF isWrite THEN "domains:write" ELSE "domains:read")
        ELSE IF StartsWith(path, "/system") \/ StartsWith(path, "/admin")
        THEN (IF isWrite THEN "system:write" ELSE "system:read")
        ELSE IF StartsWith(path, "/usage") \/ StartsWith(path, "/admin/dashboard")
        THEN "usage:read"
        ELSE NoPermission

\* function getRequiredPermission(method, path)
GetRequiredPermission(method, path) ==
    LET isWrite == IsWrite(method)
        isDelete == method = "DELETE"
    IN  IF StartsWith(path, "/partners")
        THEN (IF isDelete THEN "partners:delete"
              ELSE IF isWrite THEN "partners:write" ELSE "partners:read")
        ELSE IF StartsWith(path, "/tenants")
        THEN (IF isDelete THEN "tenants:delete"
              ELSE IF isWrite THEN "tenants:write" ELSE "tenants:read")
        ELSE IF StartsWith(path, "/plans")
        THEN (IF isWrite THEN "plans:write" ELSE "plans:read")
        ELSE IF StartsWith(path, "/domains")
        THEN (IF Includes(path, "/verify") THEN "domains:verify"
              ELSE IF isWrite THEN "domains:write" ELSE "domains:read")
        ELSE IF StartsWith(path, "/usage") \/ StartsWith(path, "/admin/dashboard")
        THEN "usage:read"
        ELSE IF StartsWith(path, "/system") \/ StartsWith(path, "/admin")
        THEN (IF isWrite THEN "system:write" ELSE "system:read")
        ELSE NoPermission

\* db.membership.findFirst({where}): of the rows that satisfy the filter
\* (hits: their positions) the first in persisted order, or NoRow
FindFirst(table, hits) ==
    IF hits = {} THEN NoRow ELSE table[Min(hits)]

\* where: { user_id: userId, role: PARTNER_ADMIN }
FindPartnerAdminMembership(table, userId) ==
    FindFirst(table, {i \in 1..Len(table) :
                         table[i].user_id = userId /\ table[i].role = PARTNER_ADMIN})

FindTenantMembershipAnyTenant(table, userId, tenantId) ==
    FindFirst(table, {i \in 1..Len(table) :
                         /\ table[i].user_id = userId
                         /\ table[i].role \in {TENANT_ADMIN, TENANT_USER}})

\* where: { user_id: userId, tenant_id: tenantId, role: { in: [TENANT_ADMIN, TENANT_USER] } }
FindTenantMembership(table, userId, tenantId) ==
    FindFirst(table, {i \in 1..Len(table) :
                         /\ table[i].user_id = userId
                         /\ table[i].tenant_id = tenantId
                         /\ table[i].role \in {TENANT_ADMIN, TENANT_USER}})

PartnerTenantsWithIdActiveOnly(m, tenantId) ==
    {t \in TenantIds : /\ TenantPartner[t] = TenantPartner[m.tenant_id]
                       /\ t = tenantId
                       /\ tenantStatus[t] = "ACTIVE"}

\* membership.tenant.partner.tenants filtered by { id: tenantId }
PartnerTenantsWithId(m, tenantId) ==
    {t \in TenantIds : TenantPartner[t] = TenantPartner[m.tenant_id] /\ t = tenantId}

\* Number of membership queries checkTenantAccess issues for a role
AccessQueries(role) ==
    IF role \in {PARTNER_ADMIN, TENANT_ADMIN, TENANT_USER} THEN 1 ELSE 0

\* checkTenantAccess(userId, tenantId, role); dbOk = FALSE: the query throws
\* and the catch block returns false.
CheckTenantAccess(table, userId, tenantId, role, dbOk) ==
    IF role = PLATFORM_ADMIN THEN TRUE
    ELSE IF role = PARTNER_ADMIN
    THEN IF ~dbOk THEN FALSE
         ELSE LET membership == FindPartnerAdminMembership(table, userId)
              IN  membership # NoRow
                  /\ Cardinality(PartnerTenantsWithId(membership, tenantId)) > 0
    ELSE IF role \in {TENANT_ADMIN, TENANT_USER}
    THEN IF ~dbOk THEN FALSE
         ELSE FindTenantMembership(table, userId, tenantId) # NoRow
    ELSE FALSE

-----------------------------------------------------------------------------
(* SpecAccess: checkTenantAccess over a changing membership table *)

NoCall == [userId |-> "", tenantId |-> "", role |-> "", dbOk |-> TRUE, result |-> FALSE]

\* The principal whose access is checked; u2 owns rows that must not count
Caller == "u1"

\* Tenant ids a caller may pass: the tenants and an id of no tenant
CallTenantIds == TenantIds \cup {"t9"}

Idle ==
    /\ pc = "idle"
    /\ req = [method |-> "", url |-> "", auth |-> ""]
    /\ user = NoUser
    /\ context = NoTenant
    /\ reply = [status |-> 0, code |-> "", message |-> ""]
    /\ decision = "NONE"
    /\ lookups = 0
    /\ dbFailed = FALSE
    /\ handlerRan = FALSE

InitAccess ==
    /\ memberships = <<>>
    /\ tenantStatus = [t \in TenantIds |-> "ACTIVE"]
    /\ Idle
    /\ call = NoCall
    /\ adminEmail = AdminEmail
    /\ NoSession
    /\ UsageIdle
    /\ ResourcesIdle

AddMembership(u, t, r) ==
    /\ Len(memberships) < MaxAccessRows
    /\ \A i \in 1..Len(memberships) :
          ~(memberships[i].user_id = u /\ memberships[i].tenant_id = t)
    /\ memberships' = Append(memberships, [user_id |-> u, tenant_id |-> t, role |-> r])
    /\ call' = NoCall
    /\ UNCHANGED <<tenantStatus, pipelineVars>>
    /\ prior' = IF prior = NoPrior THEN NoPrior ELSE [prior EXCEPT !.tableChanged = TRUE]
    /\ UNCHANGED <<sessionVars, usageVars>>
    /\ UNCHANGED resourceVars

RemoveMembership(i) ==
    /\ i \in 1..Len(memberships)
    /\ memberships' = SubSeq(memberships, 1, i - 1) \o SubSeq(memberships, i + 1, Len(memberships))
    /\ call' = NoCall
    /\ UNCHANGED <<tenantStatus, pipelineVars>>
    /\ prior' = IF prior = NoPrior THEN NoPrior ELSE [prior EXCEPT !.tableChanged = TRUE]
    /\ UNCHANGED <<sessionVars, usageVars>>
    /\ UNCHANGED resourceVars

CallCheckTenantAccess(u, t, r, dbOk) ==
    /\ call' = [userId |-> u, tenantId |-> t, role |-> r, dbOk |-> dbOk,
                result |-> CheckTenantAccess(memberships, u, t, r, dbOk)]
    /\ UNCHANGED <<memberships, tenantStatus, pipelineVars>>
    /\ UNCHANGED <<sessionVars, prior, usageVars>>
    /\ UNCHANGED resourceVars

NextAccess ==
    \/ \E u \in MemberUsers, t \in TenantIds, r \in Roles : AddMembership(u, t, r)
    \/ \E i \in 1..MaxAccessRows : RemoveMembership(i)
    \/ \E t \in CallTenantIds, r \in Roles \cup {OtherRole}, dbOk \in BOOLEAN :
          CallCheckTenantAccess(Caller, t, r, dbOk)

SpecAccess == InitAccess /\ [][NextAccess]_vars

-----------------------------------------------------------------------------
(* Claims on checkTenantAccess (SpecAccess) *)

HasPartnerAdminRowFor(table, P, T) ==
    \E i \in 1..Len(table) :
        /\ table[i].user_id = P
        /\ table[i].role = PARTNER_ADMIN
        /\ T \in TenantIds
        /\ TenantPartner[table[i].tenant_id] = TenantPartner[T]

HasTenantRowOn(table, P, T) ==
    \E i \in 1..Len(table) :
        /\ table[i].user_id = P
        /\ table[i].tenant_id = T
        /\ table[i].role \in {TENANT_ADMIN, TENANT_USER}

\* C1 (as stated): canAccessTenant(P,T) is true iff the role is PLATFORM_ADMIN,
\* or P has a PARTNER_ADMIN membership whose tenant's partner owns T, or P has
\* a TENANT_ADMIN/TENANT_USER membership on exactly T.
C1_AccessIffQualifyingMembership ==
    (call # NoCall /\ call.dbOk) =>
        (call.result <=>
            \/ call.role = PLATFORM_ADMIN
            \/ HasPartnerAdminRowFor(memberships, call.userId, call.tenantId)
            \/ HasTenantRowOn(memberships, call.userId, call.tenantId))

\* C2: with token role TENANT_ADMIN or TENANT_USER the result is true iff a row
\* binding exactly (P,T) with role TENANT_ADMIN or TENANT_USER exists (never
\* true without such a row, also when the query fails); a role value outside
\* the enum gets false.
C2_TenantRoleNeedsExactMembership ==
    call # NoCall =>
        /\ (call.role \in {TENANT_ADMIN, TENANT_USER} /\ call.dbOk) =>
              (call.result <=> HasTenantRowOn(memberships, call.userId, call.tenantId))
        /\ (call.role \in {TENANT_ADMIN, TENANT_USER} /\ call.result) =>
              HasTenantRowOn(memberships, call.userId, call.tenantId)
        /\ (call.role \notin Roles) => ~call.result

\* C2 witness: a tenant-role principal with a membership in a sibling tenant
\* of the same partner, but none on T, was refused.
C2_Witness ==
    /\ call # NoCall
    /\ call.dbOk
    /\ call.role \in {TENANT_ADMIN, TENANT_USER}
    /\ call.tenantId \in TenantIds
    /\ ~call.result
    /\ \E i \in 1..Len(memberships) :
          /\ memberships[i].user_id = call.userId
          /\ memberships[i].role \in {TENANT_ADMIN, TENANT_USER}
          /\ memberships[i].tenant_id # call.tenantId
          /\ TenantPartner[memberships[i].tenant_id] = TenantPartner[call.tenantId]

\* C3 (as stated): with token role PARTNER_ADMIN the result is true iff at
\* least one PARTNER_ADMIN membership of P lies in a tenant of the partner
\* that owns T, also when P holds such memberships under several partners.
C3_PartnerAdminAnyMembershipSuffices ==
    (call # NoCall /\ call.dbOk /\ call.role = PARTNER_ADMIN) =>
        (call.result <=> HasPartnerAdminRowFor(memberships, call.userId, call.tenantId))

-----------------------------------------------------------------------------
(* Requests and the Authorization header *)

Methods == {"GET", "POST", "PUT", "DELETE"}

\* Prefixes under which buildServer registers routes behind the two hooks
ProtectedPrefixes ==
    {"/partners", "/tenants", "/domains", "/plans", "/usage", "/system", "/admin"}

InProtectedScopeAllRoutes(url) == TRUE

\* The route of url is registered inside the scope that carries the hooks
InProtectedScope(url) ==
    \E p \in ProtectedPrefixes : url = p \/ StartsWith(url, p \o "/")

ProtectedUrls ==
    {"/partners", "/tenants", "/tenants/t1/status", "/tenants/t2/config",
     "/tenants/t3/config", "/plans", "/domains", "/domains/d1/verify",
     "/usage/record", "/system/settings", "/admin/dashboard-stats"}

\* Routes registered outside that scope: health, auth, swagger UI, root
PublicUrls == {"/health", "/auth/login", "/docs", "/"}

RequestUrls == ProtectedUrls \cup PublicUrls

\* Authorization header: absent, another scheme, or a bearer JWT (signature
\* good or bad, expired or not).
AbsentHeader == [kind |-> "absent", sig |-> "", expired |-> FALSE, payload |-> NoUser]

OtherSchemeHeader == [kind |-> "other_scheme", sig |-> "", expired |-> FALSE, payload |-> NoUser]

BearerHeader(sig, expired, payload) ==
    [kind |-> "bearer", sig |-> sig, expired |-> expired, payload |-> payload]

\* A correctly signed token whose role claim is not a value of the Role enum
ForeignPayload ==
    [sub |-> "u1", email |-> UserEmail("u1"), role |-> OtherRole, tenant_context |-> <<>>]

\* Users that send requests; u2 only owns membership rows
Requesters == {"u0", "u1"}

\* Headers a client can send, given the table its login reads
Headers(table) ==
    {AbsentHeader, OtherSchemeHeader,
     BearerHeader("good", FALSE, ForeignPayload),
     BearerHeader("good", TRUE, JwtPayload(table, "u1")),
     BearerHeader("bad", FALSE, JwtPayload(table, "u1"))}
    \cup {BearerHeader("good", FALSE, JwtPayload(table, u)) : u \in Requesters}

AuthKind(h) ==
    IF h.kind # "bearer" THEN h.kind
    ELSE IF h.sig = "bad" THEN "tampered"
    ELSE IF h.expired THEN "expired"
    ELSE "valid"

\* request.headers.authorization?.replace('Bearer ', ''): "" stands for
\* undefined
ExtractToken(h) ==
    CASE h.kind = "absent" -> ""
      [] h.kind = "other_scheme" -> "Basic dTE6cHc="
      [] h.kind = "bearer" -> "jwt"

TokenMissingNever(h) == FALSE

\* if (!token)
TokenMissing(h) == ExtractToken(h) = ""

\* request.jwtVerify(): the payload, or the error it throws
JwtVerify(h) ==
    IF h.kind # "bearer"
    THEN [ok |-> FALSE, error |-> "FST_JWT_BAD_REQUEST", payload |-> NoUser]
    ELSE IF h.sig # "good"
    THEN [ok |-> FALSE, error |-> "FST_JWT_AUTHORIZATION_TOKEN_INVALID", payload |-> NoUser]
    ELSE IF h.expired
    THEN [ok |-> FALSE, error |-> "FST_JWT_AUTHORIZATION_TOKEN_EXPIRED", payload |-> NoUser]
    ELSE [ok |-> TRUE, error |-> "", payload |-> h.payload]

-----------------------------------------------------------------------------
(* The two onRequest hooks *)

\* Result of a hook: sent = it replied (return reply.status(..).send(..))
HookSent(r) == [sent |-> TRUE, reply |-> r, user |-> NoUser, tenant_id |-> NoTenant, lookups |-> 0]

HookPass(u, t, n) == [sent |-> FALSE, reply |-> NoReply, user |-> u, tenant_id |-> t, lookups |-> n]

\* authMiddleware onRequest
AuthHook(url, h) ==
    IF StartsWith(url, "/health") \/ StartsWith(url, "/docs")
    THEN HookPass(NoUser, NoTenant, 0)
    ELSE IF TokenMissing(h)
    THEN HookSent(Reply(401, "UNAUTHORIZED", "Authorization token required"))
    ELSE LET v == JwtVerify(h)
         IN  IF ~v.ok
             THEN HookSent(Reply(401, "TOKEN_INVALID", "Invalid or expired token"))
             ELSE HookPass(v.payload,
                           IF StartsWith(url, "/tenants/") THEN TenantMatch(url) ELSE NoTenant,
                           0)

NeedsTenantCheckTenantRolesOnly(u, tenantId) ==
    u.role \notin {PLATFORM_ADMIN, PARTNER_ADMIN} /\ tenantId # NoTenant

\* user.role !== Role.PLATFORM_ADMIN && context.tenant_id
NeedsTenantCheck(u, tenantId) ==
    u.role # PLATFORM_ADMIN /\ tenantId # NoTenant

\* The tenant scoping block of the RBAC hook
TenantScoping(table, u, tenantId, dbOk) ==
    IF NeedsTenantCheck(u, tenantId)
    THEN IF CheckTenantAccess(table, u.sub, tenantId, u.role, dbOk)
         THEN HookPass(u, tenantId, AccessQueries(u.role))
         ELSE [HookSent(Reply(403, "FORBIDDEN", "Access denied to this tenant"))
                  EXCEPT !.lookups = AccessQueries(u.role)]
    ELSE HookPass(u, tenantId, 0)

RbacHookScopingFirst(table, method, url, u, tenantId, dbOk) ==
    IF StartsWith(url, "/health") \/ StartsWith(url, "/docs")
       \/ StartsWith(url, "/auth") \/ url = "/"
    THEN HookPass(u, tenantId, 0)
    ELSE IF u = NoUser
    THEN HookSent(Reply(401, "UNAUTHORIZED", "Authentication required"))
    ELSE LET requiredPermission == GetRequiredPermission(method, url)
             scoped == TenantScoping(table, u, tenantId, dbOk)
         IN  IF requiredPermission = NoPermission
             THEN HookPass(u, tenantId, 0)
             ELSE IF scoped.sent
             THEN scoped
             ELSE IF u.role \notin DOMAIN AccessRules
             THEN [HookSent(Reply(403, "FORBIDDEN", "Access denied"))
                      EXCEPT !.lookups = scoped.lookups]
             ELSE IF requiredPermission \notin AccessRules[u.role]
             THEN [HookSent(Reply(403, "FORBIDDEN", "Insufficient permissions"))
                      EXCEPT !.lookups = scoped.lookups]
             ELSE scoped

\* rbacMiddleware onRequest
RbacHook(table, method, url, u, tenantId, dbOk) ==
    IF StartsWith(url, "/health") \/ StartsWith(url, "/docs")
       \/ StartsWith(url, "/auth") \/ url = "/"
    THEN HookPass(u, tenantId, 0)
    ELSE IF u = NoUser
    THEN HookSent(Reply(401, "UNAUTHORIZED", "Authentication required"))
    ELSE LET requiredPermission == GetRequiredPermission(method, url)
         IN  IF requiredPermission = NoPermission
             THEN HookPass(u, tenantId, 0)
             ELSE IF u.role \notin DOMAIN AccessRules
             THEN HookSent(Reply(403, "FORBIDDEN", "Access denied"))
             ELSE IF requiredPermission \notin AccessRules[u.role]
             THEN HookSent(Reply(403, "FORBIDDEN", "Insufficient permissions"))
             ELSE TenantScoping(table, u, tenantId, dbOk)

AfterHookAlwaysContinues(sent, next) == next

\* A hook that returns the sent reply ends the request; otherwise the next
\* stage of the route's lifecycle runs
AfterHook(sent, next) == IF sent THEN "done" ELSE next

-----------------------------------------------------------------------------
(* Route handlers *)

\* Values of body.status sent to PUT /tenants/:id/status
BodyStatuses == {"ACTIVE", "SUSPENDED"}

\* PUT /tenants/:id/status
IsTenantStatusRoute(method, url) ==
    method = "PUT" /\ \E id \in TenantIds \cup {"t9"} : url = "/tenants/" \o id \o "/status"

UserTenantIds(u) == {u.tenant_context[i].tenant_id : i \in 1..Len(u.tenant_context)}

\* preHandler and handler of PUT /tenants/:id/status: the reply, and whether
\* db.tenant.update is reached
TenantStatusResult(u, id) ==
    IF u.role \notin {PLATFORM_ADMIN, PARTNER_ADMIN}
    THEN [update |-> FALSE,
          reply |-> Reply(403, "FORBIDDEN", "Insufficient permissions to change tenant status")]
    ELSE IF id \notin TenantIds
    THEN [update |-> FALSE, reply |-> Reply(404, "RESOURCE_NOT_FOUND", "Tenant not found")]
    ELSE IF u.role = PARTNER_ADMIN /\ id \notin UserTenantIds(u)
    THEN [update |-> FALSE, reply |-> Reply(403, "FORBIDDEN", "Access denied to this tenant")]
    ELSE [update |-> TRUE, reply |-> Reply(200, "", "")]

-----------------------------------------------------------------------------
(* Spec: one request at a time through the hooks and its handler *)

Init ==
    /\ memberships \in TablesUpTo(MaxRows)
    /\ tenantStatus = [t \in TenantIds |-> "ACTIVE"]
    /\ Idle
    /\ call = NoCall
    /\ adminEmail = AdminEmail
    /\ NoSession
    /\ UsageIdle
    /\ ResourcesIdle

\* The request (method, url) with Authorization header h is routed into the
\* protected scope and authMiddleware runs on it
RunAuthHook(method, url, h) ==
    LET r == AuthHook(url, h)
    IN  /\ InProtectedScope(url)
        /\ req' = [method |-> method, url |-> url, auth |-> AuthKind(h)]
        /\ user' = r.user
        /\ context' = r.tenant_id
        /\ reply' = r.reply
        /\ decision' = IF r.sent THEN "DENY" ELSE "NONE"
        /\ pc' = AfterHook(r.sent, "rbac")
        /\ lookups' = 0
        /\ dbFailed' = FALSE
        /\ handlerRan' = FALSE

\* A request for a route of the protected scope arrives: authMiddleware runs
AuthMiddleware ==
    /\ pc = "idle"
    /\ \E method \in Methods, url \in RequestUrls, h \in Headers(memberships) :
          RunAuthHook(method, url, h)
    /\ UNCHANGED <<memberships, tenantStatus, call>>
    /\ UNCHANGED <<sessionVars, prior, usageVars>>
    /\ UNCHANGED resourceVars

\* rbacMiddleware runs; dbOk = FALSE: the membership query throws
RbacMiddleware ==
    /\ pc = "rbac"
    /\ \E dbOk \in BOOLEAN :
          LET r == RbacHook(memberships, req.method, req.url, user, context, dbOk)
          IN  /\ reply' = r.reply
              /\ decision' = IF r.sent THEN "DENY" ELSE "ALLOW"
              /\ pc' = AfterHook(r.sent, "handler")
              /\ lookups' = r.lookups
              /\ dbFailed' = (r.lookups > 0 /\ ~dbOk)
    /\ UNCHANGED <<memberships, tenantStatus, req, user, context, handlerRan, call>>
    /\ UNCHANGED <<sessionVars, prior, usageVars>>
    /\ UNCHANGED resourceVars

\* A request for a route registered outside the protected scope (health,
\* auth): no hook runs
PublicRequest ==
    /\ pc = "idle"
    /\ \E method \in {"GET", "POST"}, url \in RequestUrls :
          /\ ~InProtectedScope(url)
          /\ req' = [method |-> method, url |-> url, auth |-> "absent"]
    /\ user' = NoUser
    /\ context' = NoTenant
    /\ reply' = NoReply
    /\ decision' = "ALLOW"
    /\ pc' = "handler"
    /\ lookups' = 0
    /\ dbFailed' = FALSE
    /\ handlerRan' = FALSE
    /\ UNCHANGED <<memberships, tenantStatus, call>>
    /\ UNCHANGED <<sessionVars, prior, usageVars>>
    /\ UNCHANGED resourceVars

\* PUT /tenants/:id/status: preHandler, then the handler
TenantStatusHandler ==
    /\ pc = "handler"
    /\ IsTenantStatusRoute(req.method, req.url)
    /\ \E status \in BodyStatuses :
          LET id == TenantMatch(req.url)
              r == TenantStatusResult(user, id)
          IN  /\ reply' = r.reply
              /\ tenantStatus' = IF r.update THEN [tenantStatus EXCEPT ![id] = status]
                                 ELSE tenantStatus
    /\ handlerRan' = TRUE
    /\ pc' = "done"
    /\ UNCHANGED <<memberships, req, user, context, decision, lookups, dbFailed, call>>
    /\ UNCHANGED <<sessionVars, prior, usageVars>>
    /\ UNCHANGED resourceVars

\* Every other route: its handler runs; it does not write the membership or
\* tenant tables modelled here
OtherHandler ==
    /\ pc = "handler"
    /\ ~IsTenantStatusRoute(req.method, req.url)
    /\ reply' = Reply(200, "", "")
    /\ handlerRan' = TRUE
    /\ pc' = "done"
    /\ UNCHANGED <<memberships, tenantStatus, req, user, context, decision, lookups, dbFailed, call>>
    /\ UNCHANGED <<sessionVars, prior, usageVars>>
    /\ UNCHANGED resourceVars

\* The reply has gone out; the server takes the next request
Complete ==
    /\ pc = "done"
    /\ pc' = "idle"
    /\ req' = [method |-> "", url |-> "", auth |-> ""]
    /\ user' = NoUser
    /\ context' = NoTenant
    /\ reply' = NoReply
    /\ decision' = "NONE"
    /\ lookups' = 0
    /\ dbFailed' = FALSE
    /\ handlerRan' = FALSE
    /\ UNCHANGED <<memberships, tenantStatus, call>>
    /\ UNCHANGED <<sessionVars, prior, usageVars>>
    /\ UNCHANGED resourceVars

Next ==
    \/ AuthMiddleware
    \/ RbacMiddleware
    \/ PublicRequest
    \/ TenantStatusHandler
    \/ OtherHandler
    \/ Complete

Spec == Init /\ [][Next]_vars

-----------------------------------------------------------------------------
(* Claims on the request pipeline (Spec) *)

\* The permission the request in flight requires
RequiredNow == GetRequiredPermission(req.method, req.url)

\* The RBAC hook has decided on a request that carried a verified token and
\* requires a permission
PermissionChecked ==
    /\ decision # "NONE"
    /\ InProtectedScope(req.url)
    /\ req.auth = "valid"
    /\ RequiredNow # NoPermission

\* The request was not stopped by the permission check of the RBAC hook
PermissionCheckPassed ==
    \/ decision = "ALLOW"
    \/ decision = "DENY" /\ reply.message = "Access denied to this tenant"

\* The role -> permission table as the specification writes it
C4_Table ==
    [r \in Roles |->
        IF r = PLATFORM_ADMIN THEN Permissions
        ELSE IF r = PARTNER_ADMIN
        THEN {"partners:read", "tenants:read", "tenants:write", "domains:read",
              "domains:write", "domains:verify", "usage:read"}
        ELSE IF r = TENANT_ADMIN
        THEN {"tenants:read", "domains:read", "domains:write", "usage:read"}
        ELSE {"tenants:read", "usage:read"}]

\* C4: for every role R and permission X of the catalog the permission check
\* of the RBAC hook passes iff X is in R's row of the fixed table; a role
\* outside the four is denied 403 FORBIDDEN.
C4_PermissionCheckMatchesTable ==
    PermissionChecked =>
        /\ RequiredNow \in Permissions
        /\ PermissionCheckPassed <=>
              (user.role \in Roles /\ RequiredNow \in C4_Table[user.role])
        /\ ~PermissionCheckPassed =>
              (decision = "DENY" /\ reply.status = 403 /\ reply.code = "FORBIDDEN")
        /\ user.role \notin Roles => ~PermissionCheckPassed

\* C4 witness: a TENANT_USER asking for tenants:write was refused by the
\* permission check.
C4_Witness ==
    /\ PermissionChecked
    /\ user.role = TENANT_USER
    /\ RequiredNow = "tenants:write"
    /\ decision = "DENY"
    /\ reply = Reply(403, "FORBIDDEN", "Insufficient permissions")

C5_TerminalStates ==
    /\ decision \in {"NONE", "ALLOW", "DENY"}
    /\ pc = "done" => decision \in {"ALLOW", "DENY"}
    /\ decision = "DENY" => (pc = "done" /\ ~handlerRan /\ reply.status \in {401, 403})
    /\ handlerRan => decision = "ALLOW"

C5_Step ==
    /\ (decision # "NONE" /\ pc # "done") => decision' = decision
    /\ decision' = "DENY" => (tenantStatus' = tenantStatus /\ memberships' = memberships)
    /\ pc = "rbac" => pc' \in {"handler", "done"}
    /\ pc = "handler" => pc' = "done"

\* C5: a request ends in exactly one of ALLOW and DENY, each hook runs at most
\* once and a decision once taken is kept; a request denied by the auth or
\* RBAC hook (401 or 403) never enters its route handler and changes no
\* persisted state.
C5_DeniedNeverReachesHandler == []C5_TerminalStates /\ [][C5_Step]_vars

\* C5 witness: a status update was denied by a hook and ended without the
\* handler running.
C5_Witness ==
    /\ pc = "done"
    /\ decision = "DENY"
    /\ IsTenantStatusRoute(req.method, req.url)
    /\ reply.status = 403
    /\ ~handlerRan

\* The request carries a verified token, targets /tenants/{id}/... and its
\* role holds the required permission; the RBAC hook has decided
TenantScoped ==
    /\ PermissionChecked
    /\ StartsWith(req.url, "/tenants/")
    /\ TenantMatch(req.url) # NoTenant
    /\ user.role \in Roles
    /\ RequiredNow \in AccessRules[user.role]

\* C6: a request that passed the permission check, targets a tenant id and
\* comes from a role other than PLATFORM_ADMIN is allowed iff checkTenantAccess
\* on (principal, id) is true at that moment, and is otherwise denied 403
\* FORBIDDEN 'Access denied to this tenant'; PLATFORM_ADMIN is allowed without
\* any lookup.
C6_TenantScopingDecides ==
    TenantScoped =>
        IF user.role = PLATFORM_ADMIN
        THEN decision = "ALLOW" /\ lookups = 0
        ELSE /\ decision = "ALLOW" <=>
                   CheckTenantAccess(memberships, user.sub, TenantMatch(req.url),
                                     user.role, ~dbFailed)
             /\ decision = "DENY" =>
                   reply = Reply(403, "FORBIDDEN", "Access denied to this tenant")

\* C6 witness: a PARTNER_ADMIN of partner p1 was refused on t3 of partner p2
\* although the lookup itself succeeded.
C6_Witness ==
    /\ TenantScoped
    /\ user.role = PARTNER_ADMIN
    /\ TenantMatch(req.url) = "t3"
    /\ ~dbFailed
    /\ lookups = 1
    /\ decision = "DENY"
    /\ reply.message = "Access denied to this tenant"

\* C7: the permission check comes before tenant scoping: a request whose role
\* lacks the required permission is denied FORBIDDEN with no tenant-access
\* lookup made, also when the principal is a member of the target tenant.
C7_PermissionBeforeScoping ==
    (PermissionChecked /\ ~(user.role \in Roles /\ RequiredNow \in AccessRules[user.role])) =>
        /\ decision = "DENY"
        /\ reply.code = "FORBIDDEN"
        /\ reply.message \in {"Insufficient permissions", "Access denied"}
        /\ lookups = 0
        /\ ~dbFailed

\* C7 witness: a TENANT_USER member of t1 was refused a write on /tenants/t1
\* without a lookup.
C7_Witness ==
    /\ PermissionChecked
    /\ user.role = TENANT_USER
    /\ TenantMatch(req.url) = "t1"
    /\ \E i \in 1..Len(memberships) :
          memberships[i] = [user_id |-> user.sub, tenant_id |-> "t1", role |-> TENANT_USER]
    /\ RequiredNow = "tenants:write"
    /\ decision = "DENY"
    /\ lookups = 0

\* C8 (as stated): when the membership lookup of tenant scoping fails, the
\* request is not allowed and the caller gets an internal error, not FORBIDDEN.
C8_LookupFailureIsInternalError ==
    dbFailed =>
        /\ decision # "ALLOW"
        /\ reply.status = 500
        /\ reply.code = "INTERNAL_SERVER_ERROR"

\* C9 (as stated): an expired, correctly signed token is denied TOKEN_EXPIRED
\* and a tampered or malformed one TOKEN_INVALID.
C9_ExpiredAndInvalidAreDistinct ==
    (pc # "idle" /\ InProtectedScope(req.url)) =>
        /\ req.auth = "expired" => (decision = "DENY" /\ reply.code = "TOKEN_EXPIRED")
        /\ req.auth \in {"tampered", "other_scheme"} =>
              (decision = "DENY" /\ reply.code = "TOKEN_INVALID")

C11_PublicPath(url) ==
    \/ StartsWith(url, "/auth")
    \/ StartsWith(url, "/health")
    \/ StartsWith(url, "/docs")
    \/ \A m \in Methods : GetRequiredPermission(m, url) = NoPermission

C12_PlatformAdminRowUnderPartnerOf(t) ==
    \E i \in 1..Len(memberships) :
        /\ memberships[i].user_id = user.sub
        /\ memberships[i].role = PLATFORM_ADMIN
        /\ TenantPartner[memberships[i].tenant_id] = TenantPartner[t]

\* C12 (as stated): a principal whose email is not the bootstrap address and
\* who holds a membership row of role PLATFORM_ADMIN is scoped like a
\* PARTNER_ADMIN: on a tenant-targeted request that a PARTNER_ADMIN may make it
\* is allowed on the tenants of that membership's partner and denied on the
\* tenants of every other partner.
C12_PlatformAdminRowScopedToPartner ==
    (/\ decision # "NONE"
     /\ req.auth = "valid"
     /\ user.role = PLATFORM_ADMIN
     /\ user.email # AdminEmail
     /\ TenantMatch(req.url) \in TenantIds
     /\ RequiredNow \in AccessRules[PARTNER_ADMIN]
     /\ \E t \in TenantIds : C12_PlatformAdminRowUnderPartnerOf(t)) =>
        (decision = "ALLOW" <=> C12_PlatformAdminRowUnderPartnerOf(TenantMatch(req.url)))

-----------------------------------------------------------------------------
(* SpecToken: a client logs in, keeps the token and sends requests with it  *)
(* while the membership table changes underneath                            *)

\* Users that log in: u0 has the address login compares with, u1 is a member
LoginUsers == {"u0", "u1"}

\* Values of PLATFORM_ADMIN_EMAIL: the default, and the address of u1
ConfiguredAdminEmails == {AdminEmail, UserEmail("u1")}

\* Membership rows written for u1 while the client holds its token
TokenTenants == {"t1", "t3"}

TokenRoles == {PARTNER_ADMIN, TENANT_USER}

\* Requests the client sends with its token
TokenMethods == {"GET", "PUT"}

TokenUrls == {"/tenants/t1/config", "/tenants/t3/config", "/tenants/t1/status"}

InitToken ==
    /\ memberships = <<>>
    /\ tenantStatus = [t \in TenantIds |-> "ACTIVE"]
    /\ Idle
    /\ call = NoCall
    /\ adminEmail \in ConfiguredAdminEmails
    /\ NoSession
    /\ UsageIdle
    /\ ResourcesIdle

\* POST /auth/login with valid credentials of u: the handler reads the user
\* with its memberships, builds the payload and signs it
Login(u) ==
    /\ pc = "idle"
    /\ token' = JwtSign(JwtPayload(memberships, u))
    /\ issued' = [userId |-> u, memberships |-> UserMemberships(memberships, u)]
    /\ prior' = NoPrior
    /\ UNCHANGED <<memberships, tenantStatus, pipelineVars, call, adminEmail, usageVars>>
    /\ UNCHANGED resourceVars

\* The client sends a request with the token it holds: authMiddleware runs
TokenRequest ==
    /\ pc = "idle"
    /\ token # NoToken
    /\ \E method \in TokenMethods, url \in TokenUrls :
          RunAuthHook(method, url, BearerHeader(token.sig, FALSE, JwtDecode(token.claims)))
    /\ UNCHANGED <<memberships, tenantStatus, call, sessionVars, prior, usageVars>>
    /\ UNCHANGED resourceVars

\* The reply reaches the client, which remembers the outcome of the first
\* request it made with the token; the server takes the next request
ClientReceives ==
    /\ pc = "done"
    /\ prior' = IF prior = NoPrior
                THEN [method |-> req.method, url |-> req.url, decision |-> decision,
                      lookupFailed |-> dbFailed, tableChanged |-> FALSE]
                ELSE prior
    /\ pc' = "idle"
    /\ req' = [method |-> "", url |-> "", auth |-> ""]
    /\ user' = NoUser
    /\ context' = NoTenant
    /\ reply' = NoReply
    /\ decision' = "NONE"
    /\ lookups' = 0
    /\ dbFailed' = FALSE
    /\ handlerRan' = FALSE
    /\ UNCHANGED <<memberships, tenantStatus, call, sessionVars, usageVars>>
    /\ UNCHANGED resourceVars

\* A membership of u1 is written between two requests
MembershipGranted ==
    /\ pc = "idle"
    /\ \E t \in TokenTenants, r \in TokenRoles : AddMembership(Caller, t, r)

\* A membership is deleted between two requests
MembershipRevoked ==
    /\ pc = "idle"
    /\ \E i \in 1..MaxAccessRows : RemoveMembership(i)

NextToken ==
    \/ \E u \in LoginUsers : Login(u)
    \/ TokenRequest
    \/ RbacMiddleware
    \/ TenantStatusHandler
    \/ OtherHandler
    \/ ClientReceives
    \/ MembershipGranted
    \/ MembershipRevoked

SpecToken == InitToken /\ [][NextToken]_vars

-----------------------------------------------------------------------------
(* Claims on tokens in use (SpecToken) *)

\* The request in flight repeats the first request made with the token in
\* hand, both have been decided, and no membership query failed in either
RepeatsPrior ==
    /\ prior # NoPrior
    /\ decision # "NONE"
    /\ req.method = prior.method
    /\ req.url = prior.url
    /\ ~dbFailed
    /\ ~prior.lookupFailed

\* C13 (as stated): a decision made with a token depends on the token alone:
\* a membership added or revoked after the token was issued changes no
\* decision made with that token.
C13_DecisionFromTokenAlone ==
    RepeatsPrior => decision = prior.decision

C17_LoginRoleFollowsConfiguredAdmin ==
    token # NoToken =>
        LET role == Claim(token.claims, "role")
            email == UserEmail(issued.userId)
            ms == issued.memberships
        IN  /\ role = PLATFORM_ADMIN <=> email = adminEmail
            /\ email # adminEmail =>
                  role = IF Len(ms) > 0 THEN ms[1].role ELSE TENANT_USER

\* C18: for a user with a non-empty membership list, what the auth hook
\* verifies from the token issued at login has sub equal to the user id, role
\* equal to the primary role computed at login, and tenant_context listing
\* the memberships login read, all of them in the same order, whatever the
\* membership table holds by then.
C18_TokenRoundTrip ==
    (pc # "idle" /\ req.auth = "valid" /\ Len(issued.memberships) > 0) =>
        LET ms == issued.memberships
        IN  /\ user.sub = issued.userId
            /\ user.role = IF UserEmail(issued.userId) = AdminEmail
                            THEN PLATFORM_ADMIN ELSE ms[1].role
            /\ Len(user.tenant_context) = Len(ms)
            /\ \A i \in 1..Len(ms) :
                  /\ user.tenant_context[i].tenant_id = ms[i].tenant_id
                  /\ user.tenant_context[i].role = ms[i].role

\* C18 witness: a token issued for two memberships was verified after both
\* rows had been deleted.
C18_Witness ==
    /\ pc # "idle"
    /\ req.auth = "valid"
    /\ Len(issued.memberships) = 2
    /\ Len(user.tenant_context) = 2
    /\ memberships = <<>>

-----------------------------------------------------------------------------
(* SpecClassify: getRequiredPermission applied to methods and paths *)

ClassifyMethods == {"GET", "POST", "PUT", "PATCH", "DELETE", "HEAD", "OPTIONS"}

\* Paths of registered routes, and paths that differ from a rule's prefix by
\* case, by a missing or extra character or by position
ClassifyPaths ==
    {"/partners", "/partners/p1/status", "/partnerships", "/api/partners", "/Partners",
     "/tenants", "/tenants/t1/status", "/tenants/t1/verify", "/tenant",
     "/plans", "/plans/attach",
     "/domains", "/domains/d1", "/domains/d1/verify", "/domains/resolve",
     "/usage", "/usage/record", "/usage/tenant/t1",
     "/admin/dashboard-stats", "/admin/dashboard", "/admin/recent-activity", "/admin",
     "/system", "/system/settings",
     "/health", "/auth/login", "/docs", "/version", "/"}

InitClassify ==
    /\ memberships = <<>>
    /\ tenantStatus = [t \in TenantIds |-> "ACTIVE"]
    /\ Idle
    /\ call = NoCall
    /\ adminEmail = AdminEmail
    /\ NoSession
    /\ UsageIdle
    /\ ResourcesIdle

\* A call getRequiredPermission(method, path) and what it returns
Classify(method, path) ==
    /\ call' = [method |-> method, path |-> path,
                result |-> GetRequiredPermission(method, path)]
    /\ UNCHANGED <<memberships, tenantStatus, pipelineVars, sessionVars, prior, usageVars>>
    /\ UNCHANGED resourceVars

NextClassify ==
    \E method \in ClassifyMethods, path \in ClassifyPaths : Classify(method, path)

SpecClassify == InitClassify /\ [][NextClassify]_vars

-----------------------------------------------------------------------------
(* Claims on the classifier (SpecClassify) *)

\* The prefix rules in the order the classifier is specified to apply them:
\* kind rwd = delete/write/read, rw = write/read, verify = the domains rule,
\* usage = usage:read for every verb
C15_Rules ==
    << [prefixes |-> {"/partners"}, kind |-> "rwd", resource |-> "partners"],
       [prefixes |-> {"/tenants"}, kind |-> "rwd", resource |-> "tenants"],
       [prefixes |-> {"/plans"}, kind |-> "rw", resource |-> "plans"],
       [prefixes |-> {"/domains"}, kind |-> "verify", resource |-> "domains"],
       [prefixes |-> {"/usage", "/admin/dashboard"}, kind |-> "usage", resource |-> "usage"],
       [prefixes |-> {"/system", "/admin"}, kind |-> "rw", resource |-> "system"] >>

C15_Matching(path) ==
    {i \in 1..Len(C15_Rules) : \E p \in C15_Rules[i].prefixes : StartsWith(path, p)}

C15_WriteOrRead(resource, method) ==
    IF method \in {"POST", "PUT", "PATCH"} THEN resource \o ":write" ELSE resource \o ":read"

C15_Expected(method, path) ==
    IF C15_Matching(path) = {} THEN NoPermission
    ELSE LET rule == C15_Rules[Min(C15_Matching(path))]
         IN  CASE rule.kind = "rwd" ->
                    IF method = "DELETE" THEN rule.resource \o ":delete"
                    ELSE C15_WriteOrRead(rule.resource, method)
               [] rule.kind = "rw" -> C15_WriteOrRead(rule.resource, method)
               [] rule.kind = "verify" ->
                    IF Includes(path, "/verify") THEN "domains:verify"
                    ELSE C15_WriteOrRead(rule.resource, method)
               [] rule.kind = "usage" -> "usage:read"

\* C15: getRequiredPermission returns, for every method and path, a permission
\* of the catalog or none, and it is the one of the first matching prefix rule
\* in the order partners, tenants, plans, domains, usage or admin dashboard,
\* system or admin: DELETE gives delete and POST/PUT/PATCH write for partners
\* and tenants, plans and system have write/read only, a domains path with a
\* verify segment gives domains:verify for every verb, and a path that matches
\* no prefix requires no permission.
C15_ClassifierFollowsRuleOrder ==
    call # NoCall =>
        /\ call.result \in Permissions \cup {NoPermission}
        /\ call.result = C15_Expected(call.method, call.path)

\* C15 witness: DELETE on a domain verification path was classified
\* domains:verify.
C15_Witness ==
    /\ call # NoCall
    /\ call.method = "DELETE"
    /\ call.path = "/domains/d1/verify"
    /\ call.result = "domains:verify"

\* C16: a path that starts with /usage or with /admin/dashboard requires
\* usage:read for every method, POST /usage/record and DELETE included; the
\* admin dashboard is not classified by the later /admin rule.
C16_UsageReadWhateverTheVerb ==
    (call # NoCall /\ (StartsWith(call.path, "/usage")
                       \/ StartsWith(call.path, "/admin/dashboard"))) =>
        call.result = "usage:read"

\* C16 witness: a POST under the admin dashboard path was classified
\* usage:read, not system:write.
C16_Witness ==
    /\ call # NoCall
    /\ call.method = "POST"
    /\ call.path = "/admin/dashboard-stats"
    /\ call.result = "usage:read"

-----------------------------------------------------------------------------
(* Claims on partner administrators and sibling tenants (Spec) *)

\* C19 (as stated): a principal with a PARTNER_ADMIN membership in one tenant
\* of a partner is refused with 403 at no stage, neither by the RBAC hook nor
\* by the route handler, when it makes a tenant-targeted request its role
\* permits on any tenant of that partner, sibling tenants included.
C19_PartnerAdminReachesSiblingTenants ==
    (/\ decision # "NONE"
     /\ req.auth = "valid"
     /\ user.role = PARTNER_ADMIN
     /\ TenantMatch(req.url) \in TenantIds
     /\ HasPartnerAdminRowFor(memberships, user.sub, TenantMatch(req.url))
     /\ RequiredNow \in AccessRules[PARTNER_ADMIN]
     /\ ~dbFailed) =>
        /\ decision = "ALLOW"
        /\ reply.status # 403

-----------------------------------------------------------------------------
(* SpecUsage: POST /usage/record, two requests in flight at a time; the     *)
(* handler awaits findFirst and then update or create                       *)

\* Values of body.value
UsageValues == {2, 3}

\* Positions of the rows of the counter table with key k
CountersWithKey(table, k) == {i \in 1..Len(table) : table[i].key = k}

InitUsage ==
    /\ memberships = <<>>
    /\ tenantStatus = [t \in TenantIds |-> "ACTIVE"]
    /\ Idle
    /\ call = NoCall
    /\ adminEmail = AdminEmail
    /\ NoSession
    /\ UsageIdle
    /\ ResourcesIdle

\* The handler starts: tenant access check against the token's tenant_context
\* (hasAccess), product key format check (validKey); both passed, it issues
\* findFirst
RecordArrives(p, k, v, hasAccess, validKey) ==
    /\ recorder[p].pc = "idle"
    /\ recorded[k] + v <= MaxUsage
    /\ recorder' = [recorder EXCEPT ![p] =
          IF ~hasAccess THEN [NoRecorder EXCEPT !.status = 403]
          ELSE IF ~validKey THEN [NoRecorder EXCEPT !.status = 400]
          ELSE [pc |-> "find", key |-> k, value |-> v, existingId |-> 0,
                existingValue |-> 0, status |-> 0]]
    /\ UNCHANGED <<usageCounters, recorded>>
    /\ UNCHANGED <<memberships, tenantStatus, pipelineVars, call, sessionVars, prior>>
    /\ UNCHANGED resourceVars

\* db.usageCounter.findFirst({where: key}) resolves
FindCounter(p) ==
    /\ recorder[p].pc = "find"
    /\ LET hits == CountersWithKey(usageCounters, recorder[p].key)
           row == IF hits = {} THEN [id |-> 0, key |-> "", value |-> 0]
                  ELSE usageCounters[Min(hits)]
       IN  recorder' = [recorder EXCEPT ![p].pc = "write",
                                        ![p].existingId = row.id,
                                        ![p].existingValue = row.value]
    /\ UNCHANGED <<usageCounters, recorded>>
    /\ UNCHANGED <<memberships, tenantStatus, pipelineVars, call, sessionVars, prior>>
    /\ UNCHANGED resourceVars

\* db.usageCounter.update or create resolves and the handler replies: update
\* writes existingCounter.value + body.value; create fails on the unique key
\* when a row with the key exists by now (P2002), and the error handler
\* replies
WriteCounter(p) ==
    /\ recorder[p].pc = "write"
    /\ LET r == recorder[p]
           created == r.existingId = 0
           conflict == created /\ CountersWithKey(usageCounters, r.key) # {}
       IN  /\ usageCounters' =
                 IF conflict THEN usageCounters
                 ELSE IF created
                 THEN Append(usageCounters,
                             [id |-> Len(usageCounters) + 1, key |-> r.key, value |-> r.value])
                 ELSE [i \in 1..Len(usageCounters) |->
                          IF usageCounters[i].id = r.existingId
                          THEN [usageCounters[i] EXCEPT !.value = r.existingValue + r.value]
                          ELSE usageCounters[i]]
           /\ recorded' = IF conflict THEN recorded
                          ELSE [recorded EXCEPT ![r.key] = @ + r.value]
           /\ recorder' = [recorder EXCEPT ![p] =
                 [NoRecorder EXCEPT !.status = IF conflict THEN ErrorHandler("P2002").status
                                             ELSE 201]]
    /\ UNCHANGED <<memberships, tenantStatus, pipelineVars, call, sessionVars, prior>>
    /\ UNCHANGED resourceVars

NextUsage ==
    \/ \E p \in Recorders, k \in UsageKeys, v \in UsageValues, hasAccess, validKey \in BOOLEAN :
          RecordArrives(p, k, v, hasAccess, validKey)
    \/ \E p \in Recorders : FindCounter(p)
    \/ \E p \in Recorders : WriteCounter(p)

SpecUsage == InitUsage /\ [][NextUsage]_vars

-----------------------------------------------------------------------------
(* Claims on usage counters (SpecUsage) *)

\* C20 (as stated): whatever successful POST /usage/record calls were made on
\* a key, concurrent ones included, exactly one counter exists for the key and
\* its value is the sum of the recorded values.
C20_CounterIsSumOfRecords ==
    \A k \in UsageKeys :
        recorded[k] > 0 =>
            /\ Cardinality(CountersWithKey(usageCounters, k)) = 1
            /\ \A i \in CountersWithKey(usageCounters, k) :
                  usageCounters[i].value = recorded[k]

-----------------------------------------------------------------------------
(* Resource routes: lifecycle shared by the specifications below *)

\* The onRequest hooks a request meets before its route's preHandler and
\* handler: none outside the protected scope (request.user stays null), else
\* authMiddleware and then rbacMiddleware
OnRequest(table, method, url, h, dbOk) ==
    IF ~InProtectedScope(url)
    THEN HookPass(NoUser, NoTenant, 0)
    ELSE LET a == AuthHook(url, h)
         IN  IF a.sent THEN a
             ELSE RbacHook(table, method, url, a.user, a.tenant_id, dbOk)

\* The request in slot p as it leaves the onRequest hooks: replied by a hook,
\* or on to the stage next of its route
Arrived(method, url, h, b, o, next) ==
    [NoHandler EXCEPT !.pc = AfterHook(o.sent, next),
                      !.method = method, !.url = url, !.auth = AuthKind(h),
                      !.tokenRole = IF AuthKind(h) = "valid" THEN h.payload.role ELSE "",
                      !.tokenTenants = IF AuthKind(h) = "valid"
                                       THEN {h.payload.tenant_context[i].tenant_id :
                                                i \in 1..Len(h.payload.tenant_context)}
                                       ELSE {},
                      !.user = o.user, !.body = b, !.reply = o.reply]

\* The reply of slot p has gone out
Respond(p) ==
    /\ handlers[p].pc = "done"
    /\ handlers' = [handlers EXCEPT ![p] = NoHandler]
    /\ UNCHANGED <<partners, tenantCount, domains, tenantPlans>>
    /\ UNCHANGED <<memberships, tenantStatus, pipelineVars, call, sessionVars, prior, usageVars>>

-----------------------------------------------------------------------------
(* SpecAuth: POST /auth/login and GET /auth/me *)

\* bcrypt.hash and bcrypt.compare
BcryptHash(password) == "hashed_" \o password

BcryptCompare(password, hash) == hash = BcryptHash(password)

UserIds == {"u0", "u1", "u2"}

\* user.password ("" stands for null): the seed stores the admin without a
\* password, u1 is created by POST /auth/users with the hash of its
\* password, u2 is stored without a password
UserPassword ==
    [u \in UserIds |->
        CASE u = "u1" -> BcryptHash("password123")
          [] OTHER -> ""]

\* db.user.findUnique({ where: { email } }): the user id, "" for null
FindUserByEmail(email) ==
    IF \E u \in UserIds : UserEmail(u) = email
    THEN CHOOSE u \in UserIds : UserEmail(u) = email
    ELSE ""

\* const isValidPassword = user.email === 'admin@avantle.ai' ||
\*   await bcrypt.compare(body.password, user.password || '')
IsValidPassword(u, password) ==
    UserEmail(u) = "admin@avantle.ai" \/ BcryptCompare(password, UserPassword[u])

\* Handler of POST /auth/login: the reply and the token in it
LoginResult(table, email, password) ==
    LET u == FindUserByEmail(email)
    IN  IF u = ""
        THEN [reply |-> Reply(401, "UNAUTHORIZED", "Invalid credentials"), token |-> NoToken]
        ELSE IF ~IsValidPassword(u, password)
        THEN [reply |-> Reply(401, "UNAUTHORIZED", "Invalid credentials"), token |-> NoToken]
        ELSE [reply |-> Reply(200, "", ""), token |-> JwtSign(JwtPayload(table, u))]

\* Handler of GET /auth/me: reads request.user.sub; request.user is null when
\* no hook has verified a token, the read throws and the error handler replies
AuthMeResult(u) ==
    IF u = NoUser
    THEN [reply |-> ErrorHandler("TypeError"), data |-> <<>>]
    ELSE [reply |-> Reply(200, "", ""), data |-> <<u>>]

InitAuth ==
    /\ memberships \in TablesUpTo(MaxRows)
    /\ tenantStatus = [t \in TenantIds |-> "ACTIVE"]
    /\ Idle
    /\ call = NoCall
    /\ adminEmail = AdminEmail
    /\ NoSession
    /\ UsageIdle
    /\ ResourcesIdle

\* POST /auth/login with body {email, password}
PostAuthLogin(p) ==
    /\ handlers[p].pc = "idle"
    /\ \E email \in {UserEmail(u) : u \in UserIds} \cup {"nonexistent@example.com"},
          password \in {"adminpassword123", "password123", "wrongpassword"} :
          LET b == [NoBody EXCEPT !.email = email, !.password = password]
              o == OnRequest(memberships, "POST", "/auth/login", AbsentHeader, TRUE)
              r == LoginResult(memberships, email, password)
          IN  handlers' = [handlers EXCEPT ![p] =
                 IF o.sent THEN Arrived("POST", "/auth/login", AbsentHeader, b, o, "handler")
                 ELSE [Arrived("POST", "/auth/login", AbsentHeader, b, o, "done")
                          EXCEPT !.reply = r.reply, !.token = r.token]]
    /\ UNCHANGED <<partners, tenantCount, domains, tenantPlans>>
    /\ UNCHANGED <<memberships, tenantStatus, pipelineVars, call, sessionVars, prior, usageVars>>

\* GET /auth/me with Authorization header h
GetAuthMe(p) ==
    /\ handlers[p].pc = "idle"
    /\ \E h \in Headers(memberships) :
          LET o == OnRequest(memberships, "GET", "/auth/me", h, TRUE)
              r == AuthMeResult(o.user)
          IN  handlers' = [handlers EXCEPT ![p] =
                 IF o.sent THEN Arrived("GET", "/auth/me", h, NoBody, o, "handler")
                 ELSE [Arrived("GET", "/auth/me", h, NoBody, o, "done")
                          EXCEPT !.reply = r.reply, !.data = r.data]]
    /\ UNCHANGED <<partners, tenantCount, domains, tenantPlans>>
    /\ UNCHANGED <<memberships, tenantStatus, pipelineVars, call, sessionVars, prior, usageVars>>

NextAuth ==
    \/ PostAuthLogin("h1")
    \/ GetAuthMe("h1")
    \/ Respond("h1")

SpecAuth == InitAuth /\ [][NextAuth]_vars

-----------------------------------------------------------------------------
(* Claims on login and /auth/me (SpecAuth) *)

\* The supplied password matches the stored hash of the user with this email
PasswordMatches(b) ==
    /\ FindUserByEmail(b.email) # ""
    /\ UserPassword[FindUserByEmail(b.email)] = BcryptHash(b.password)

\* C21 (as stated): a POST /auth/login with an unknown email or a password
\* that does not match the stored hash is answered 401 with code
\* INVALID_CREDENTIALS and no token; a token is issued only when the password
\* matches.
C21_InvalidCredentialsNoToken ==
    \A p \in HandlerIds :
        (handlers[p].pc = "done" /\ handlers[p].url = "/auth/login") =>
            /\ ~PasswordMatches(handlers[p].body) =>
                  /\ handlers[p].reply.status = 401
                  /\ handlers[p].reply.code = "INVALID_CREDENTIALS"
                  /\ handlers[p].token = NoToken
            /\ handlers[p].token # NoToken => PasswordMatches(handlers[p].body)

\* C22 (as stated): a GET /auth/me without bearer token, or with a token that
\* fails verification, is answered 401 UNAUTHORIZED; user data is returned
\* only for a verified token.
C22_MeRequiresVerifiedToken ==
    \A p \in HandlerIds :
        (handlers[p].pc = "done" /\ handlers[p].url = "/auth/me") =>
            /\ handlers[p].auth # "valid" =>
                  /\ handlers[p].reply.status = 401
                  /\ handlers[p].reply.code = "UNAUTHORIZED"
            /\ handlers[p].data # <<>> => handlers[p].auth = "valid"

-----------------------------------------------------------------------------
(* SpecPartners: POST /partners *)

\* Rows of the partners table that hold this billing_email
PartnersWithEmail(table, email) == {i \in 1..Len(table) : table[i].billing_email = email}

\* preHandler of POST /partners: it replies 403 unless the role is
\* PLATFORM_ADMIN
CreatePartnerPreHandler(u) ==
    IF u.role # PLATFORM_ADMIN
    THEN HookSent(Reply(403, "FORBIDDEN", "Only platform administrators can create partners"))
    ELSE HookPass(u, NoTenant, 0)

\* db.partner.create in the handler of POST /partners: the unique index on
\* billing_email rejects a second row (P2002), the handler rethrows and the
\* error handler replies; otherwise the row is stored with status PENDING
CreatePartnerResult(table, b) ==
    IF PartnersWithEmail(table, b.billing_email) # {}
    THEN [created |-> FALSE, table |-> table, reply |-> ErrorHandler("P2002")]
    ELSE [created |-> TRUE,
          table |-> Append(table, [id |-> <<"p3", "p4", "p5">>[Len(table) - Len(SeedPartners) + 1],
                                   billing_email |-> b.billing_email,
                                   status |-> "PENDING"]),
          reply |-> Reply(201, "", "")]

InitPartners ==
    /\ memberships \in TablesUpTo(MaxRows)
    /\ tenantStatus = [t \in TenantIds |-> "ACTIVE"]
    /\ Idle
    /\ call = NoCall
    /\ adminEmail = AdminEmail
    /\ NoSession
    /\ UsageIdle
    /\ ResourcesIdle

\* POST /partners arrives with Authorization header h and meets the hooks
PostPartners(p) ==
    /\ handlers[p].pc = "idle"
    /\ \E h \in Headers(memberships),
          email \in {"billing@p1.example", "billing@new.example", "billing@other.example"} :
          LET b == [NoBody EXCEPT !.name = "Partner", !.billing_email = email]
              o == OnRequest(memberships, "POST", "/partners", h, TRUE)
          IN  handlers' = [handlers EXCEPT ![p] =
                              Arrived("POST", "/partners", h, b, o, "preHandler")]
    /\ UNCHANGED <<partners, tenantCount, domains, tenantPlans>>
    /\ UNCHANGED <<memberships, tenantStatus, pipelineVars, call, sessionVars, prior, usageVars>>

\* The preHandler of POST /partners runs
PartnerPreHandler(p) ==
    /\ handlers[p].pc = "preHandler"
    /\ handlers[p].url = "/partners"
    /\ LET r == CreatePartnerPreHandler(handlers[p].user)
       IN  handlers' = [handlers EXCEPT ![p] =
              [@ EXCEPT !.pc = AfterHook(r.sent, "handler"),
                        !.reply = IF r.sent THEN r.reply ELSE @]]
    /\ UNCHANGED <<partners, tenantCount, domains, tenantPlans>>
    /\ UNCHANGED <<memberships, tenantStatus, pipelineVars, call, sessionVars, prior, usageVars>>

\* The handler of POST /partners runs
CreatePartner(p) ==
    /\ handlers[p].pc = "handler"
    /\ handlers[p].url = "/partners"
    /\ LET r == CreatePartnerResult(partners, handlers[p].body)
       IN  /\ partners' = r.table
           /\ handlers' = [handlers EXCEPT ![p] =
                 [@ EXCEPT !.pc = "done", !.reply = r.reply, !.wrote = r.created,
                           !.count = Cardinality(PartnersWithEmail(partners,
                                                                handlers[p].body.billing_email))]]
    /\ UNCHANGED <<tenantCount, domains, tenantPlans>>
    /\ UNCHANGED <<memberships, tenantStatus, pipelineVars, call, sessionVars, prior, usageVars>>

NextPartners ==
    \/ PostPartners("h1")
    \/ PartnerPreHandler("h1")
    \/ CreatePartner("h1")
    \/ Respond("h1")

SpecPartners == InitPartners /\ [][NextPartners]_vars

-----------------------------------------------------------------------------
(* Claims on partners (SpecPartners) *)

\* A POST /partners with a verified token has been answered
PartnersPostAnswered(p) ==
    /\ handlers[p].pc = "done"
    /\ handlers[p].method = "POST"
    /\ handlers[p].url = "/partners"
    /\ handlers[p].auth = "valid"

\* C23: POST /partners creates a partner only when the role in the token is
\* PLATFORM_ADMIN; with any other role the reply is 403 FORBIDDEN and the
\* partners table is left as it was.
C23_OnlyPlatformAdminCreatesPartners ==
    /\ [](\A p \in HandlerIds :
             (PartnersPostAnswered(p) /\ handlers[p].tokenRole # PLATFORM_ADMIN) =>
                 /\ handlers[p].reply.status = 403
                 /\ handlers[p].reply.code = "FORBIDDEN"
                 /\ ~handlers[p].wrote)
    /\ [][partners' # partners =>
             \E p \in HandlerIds :
                 /\ handlers[p].tokenRole = PLATFORM_ADMIN
                 /\ handlers[p].url = "/partners"
                 /\ handlers'[p].wrote]_vars

\* C23 witness: after the platform admin created a partner, a PARTNER_ADMIN
\* asked for one and was refused
C23_Witness ==
    /\ Len(partners) > Len(SeedPartners)
    /\ \E p \in HandlerIds :
          /\ PartnersPostAnswered(p)
          /\ handlers[p].tokenRole = PARTNER_ADMIN
          /\ handlers[p].reply.status = 403

\* @unique on partner.billing_email
UniqueBillingEmails(table) ==
    \A i, j \in 1..Len(table) : table[i].billing_email = table[j].billing_email => i = j

\* C26 (as stated): billing_email is unique across partners; a POST /partners
\* whose billing_email an existing partner has is answered with status 500
\* and stores nothing.
C26_DuplicateBillingEmailFailsWith500 ==
    /\ UniqueBillingEmails(partners)
    /\ \A p \in HandlerIds :
          (PartnersPostAnswered(p) /\ handlers[p].count > 0) =>
              /\ handlers[p].reply.status = 500
              /\ ~handlers[p].wrote

-----------------------------------------------------------------------------
(* SpecTenants: POST /tenants, two requests in flight *)

\* const MAX_TENANTS_PER_PARTNER = 100 // From config
MAX_TENANTS_PER_PARTNER == 100

\* Membership tables of the requester u1: none, one row, or PARTNER_ADMIN
\* under partner p2 together with TENANT_USER under partner p1
RequesterTables ==
    {<<>>}
    \cup {<<r>> : r \in {x \in Rows : x.user_id = "u1"}}
    \cup {<<[user_id |-> "u1", tenant_id |-> "t3", role |-> PARTNER_ADMIN],
            [user_id |-> "u1", tenant_id |-> "t1", role |-> TENANT_USER]>>}

PartnerTenantsAnyPartner(u, partnerId) == UserTenantIds(u) \cap TenantIds

\* db.tenant.findMany({ where: { id: { in: userTenantIds }, partner_id } })
PartnerTenantsOfUser(u, partnerId) ==
    {t \in UserTenantIds(u) \cap TenantIds : TenantPartner[t] = partnerId}

\* First block of the handler of POST /tenants: who may create tenants for
\* body.partner_id
CreateTenantAccess(u, b) ==
    IF u.role # PLATFORM_ADMIN
    THEN IF u.role = PARTNER_ADMIN
         THEN IF PartnerTenantsOfUser(u, b.partner_id) = {}
              THEN HookSent(Reply(403, "FORBIDDEN", "Cannot create tenants for this partner"))
              ELSE HookPass(u, NoTenant, 0)
         ELSE HookSent(Reply(403, "FORBIDDEN", "Insufficient permissions to create tenants"))
    ELSE HookPass(u, NoTenant, 0)

\* db.partner.findUnique({ where: { id } }): the row index, 0 for null
FindPartner(table, id) ==
    IF \E i \in 1..Len(table) : table[i].id = id
    THEN CHOOSE i \in 1..Len(table) : table[i].id = id
    ELSE 0

\* Second block: the partner exists, is ACTIVE and is under the tenant limit,
\* judged on the count read together with the partner
PartnerCheck(table, counts, b) ==
    LET i == FindPartner(table, b.partner_id)
    IN  IF i = 0 \/ table[i].status # "ACTIVE"
        THEN HookSent(Reply(400, "RESOURCE_NOT_FOUND", "Partner not found or inactive"))
        ELSE IF counts[b.partner_id] >= MAX_TENANTS_PER_PARTNER
        THEN HookSent(Reply(400, "TENANT_LIMIT_EXCEEDED",
                            "Partner has reached maximum tenant limit"))
        ELSE HookPass(NoUser, NoTenant, 0)

\* Partners near their tenant limit; partner p2 may be suspended
InitTenants ==
    /\ memberships \in RequesterTables
    /\ tenantStatus = [t \in TenantIds |-> "ACTIVE"]
    /\ Idle
    /\ call = NoCall
    /\ adminEmail = AdminEmail
    /\ NoSession
    /\ UsageIdle
    /\ \E s \in {"ACTIVE", "SUSPENDED"} :
          partners = [SeedPartners EXCEPT ![2].status = s]
    /\ \E n \in {MAX_TENANTS_PER_PARTNER - 1, MAX_TENANTS_PER_PARTNER} :
          tenantCount = [p \in PartnerIds |->
                            IF p = "p1" THEN n ELSE MAX_TENANTS_PER_PARTNER - 1]
    /\ domains = <<>>
    /\ tenantPlans = <<>>
    /\ handlers = [p \in HandlerIds |-> NoHandler]

\* POST /tenants arrives with Authorization header h and meets the hooks
PostTenants(p) ==
    /\ handlers[p].pc = "idle"
    /\ \E h \in Headers(memberships), pid \in PartnerIds \cup {"p9"} :
          LET b == [NoBody EXCEPT !.name = "Tenant", !.partner_id = pid]
              o == OnRequest(memberships, "POST", "/tenants", h, TRUE)
          IN  handlers' = [handlers EXCEPT ![p] =
                              Arrived("POST", "/tenants", h, b, o, "handler")]
    /\ UNCHANGED <<partners, tenantCount, domains, tenantPlans>>
    /\ UNCHANGED <<memberships, tenantStatus, pipelineVars, call, sessionVars, prior, usageVars>>

\* The handler of POST /tenants up to the await of db.tenant.create: access
\* block, then db.partner.findUnique with the tenant count and the two checks
\* on it
CheckCreateTenant(p) ==
    /\ handlers[p].pc = "handler"
    /\ handlers[p].url = "/tenants"
    /\ LET a == CreateTenantAccess(handlers[p].user, handlers[p].body)
           c == PartnerCheck(partners, tenantCount, handlers[p].body)
       IN  handlers' = [handlers EXCEPT ![p] =
              IF a.sent
              THEN [@ EXCEPT !.pc = "done", !.reply = a.reply]
              ELSE [@ EXCEPT !.pc = AfterHook(c.sent, "create"),
                             !.reply = IF c.sent THEN c.reply ELSE @,
                             !.count = IF FindPartner(partners, handlers[p].body.partner_id) = 0
                                       THEN 0
                                       ELSE tenantCount[handlers[p].body.partner_id]]]
    /\ UNCHANGED <<partners, tenantCount, domains, tenantPlans>>
    /\ UNCHANGED <<memberships, tenantStatus, pipelineVars, call, sessionVars, prior, usageVars>>

\* db.tenant.create resolves and the handler replies 201
CreateTenant(p) ==
    /\ handlers[p].pc = "create"
    /\ tenantCount' = [tenantCount EXCEPT ![handlers[p].body.partner_id] = @ + 1]
    /\ handlers' = [handlers EXCEPT ![p] =
          [@ EXCEPT !.pc = "done", !.reply = Reply(201, "", ""), !.wrote = TRUE]]
    /\ UNCHANGED <<partners, domains, tenantPlans>>
    /\ UNCHANGED <<memberships, tenantStatus, pipelineVars, call, sessionVars, prior, usageVars>>

NextTenants ==
    \/ \E p \in HandlerIds : PostTenants(p)
    \/ \E p \in HandlerIds : CheckCreateTenant(p)
    \/ \E p \in HandlerIds : CreateTenant(p)
    \/ \E p \in HandlerIds : Respond(p)

SpecTenants == InitTenants /\ [][NextTenants]_vars

-----------------------------------------------------------------------------
(* Claims on tenant creation (SpecTenants) *)

\* A POST /tenants with a verified token of a role other than PLATFORM_ADMIN
NonAdminTenantsPost(p) ==
    /\ handlers[p].method = "POST"
    /\ handlers[p].url = "/tenants"
    /\ handlers[p].auth = "valid"
    /\ handlers[p].tokenRole # PLATFORM_ADMIN

\* The token of the request has role PARTNER_ADMIN and its tenant_context
\* holds a tenant of the partner named in the body
MayCreateForPartner(p) ==
    /\ handlers[p].tokenRole = PARTNER_ADMIN
    /\ \E t \in handlers[p].tokenTenants \cap TenantIds :
          TenantPartner[t] = handlers[p].body.partner_id

C30_TenantLimitNeverExceeded ==
    /\ \A q \in PartnerIds : tenantCount[q] <= MAX_TENANTS_PER_PARTNER
    /\ \A p \in HandlerIds :
          (handlers[p].pc = "done" /\ handlers[p].url = "/tenants"
              /\ handlers[p].count >= MAX_TENANTS_PER_PARTNER) =>
              /\ handlers[p].reply.status = 400
              /\ handlers[p].reply.code = "TENANT_LIMIT_EXCEEDED"

-----------------------------------------------------------------------------
(* SpecDomains: GET /domains, GET /domains/resolve, PUT /domains/:id and
   POST /domains/:id/verify, one request at a time. The url of a request is
   the path of request.url; its query string is carried in body. *)

\* The lower-case form of a one-character string
LowerChar(c) ==
    LET upper == "ABCDEFGHIJKLMNOPQRSTUVWXYZ"
        lower == "abcdefghijklmnopqrstuvwxyz"
    IN  IF \E i \in 1..Len(upper) : SubSeq(upper, i, i) = c
        THEN LET i == CHOOSE j \in 1..Len(upper) : SubSeq(upper, j, j) = c
             IN  SubSeq(lower, i, i)
        ELSE c

\* String.prototype.toLowerCase
RECURSIVE ToLowerCase(_)
ToLowerCase(str) ==
    IF str = "" THEN ""
    ELSE LowerChar(SubSeq(str, 1, 1)) \o ToLowerCase(SubSeq(str, 2, Len(str)))

\* The :id of a route /domains/:id or /domains/:id/verify
DomainParam(url) ==
    LET start == Len("/domains/") + 1
        slashes == {j \in start..Len(url) : SubSeq(url, j, j) = "/"}
        stop == IF slashes = {} THEN Len(url) ELSE Min(slashes) - 1
    IN  IF StartsWith(url, "/domains/") /\ stop >= start
        THEN SubSeq(url, start, stop)
        ELSE ""

\* The domains table as seeded, and a third domain whose hostname the
\* verification refuses
SeedDomains ==
    <<[id |-> "d1", hostname |-> "demo.avantle.ai", tenant_id |-> "t1", status |-> "VERIFIED"],
      [id |-> "d2", hostname |-> "api.demo-company.com", tenant_id |-> "t3", status |-> "PENDING"],
      [id |-> "d3", hostname |-> "invalid.demo-company.com", tenant_id |-> "t2", status |-> "PENDING"]>>

\* db.domain.findUnique by id or by hostname: the row index, 0 for null
FindDomainById(table, id) ==
    IF \E i \in 1..Len(table) : table[i].id = id
    THEN CHOOSE i \in 1..Len(table) : table[i].id = id
    ELSE 0

FindDomainByHostname(table, hostname) ==
    IF \E i \in 1..Len(table) : table[i].hostname = hostname
    THEN CHOOSE i \in 1..Len(table) : table[i].hostname = hostname
    ELSE 0

RECURSIVE Reverse(_)
Reverse(seq) == IF seq = <<>> THEN <<>> ELSE Append(Reverse(Tail(seq)), Head(seq))

\* The where of GET /domains: the tenants of the token for a caller other
\* than PLATFORM_ADMIN, then the query filters; if (tenant_id)
\* where.tenant_id = tenant_id replaces what was there
ListWhere(u, q) ==
    [tenant_ids |-> IF q.tenant_id # "" THEN {q.tenant_id}
                    ELSE IF u.role # PLATFORM_ADMIN THEN UserTenantIds(u)
                    ELSE TenantIds,
     status |-> q.status,
     hostname |-> q.hostname]

\* db.domain.findMany({ where, orderBy: { created_at: 'desc' } }) within the
\* first page
ListDomains(table, where) ==
    Reverse(SelectSeq(table, LAMBDA d :
        /\ d.tenant_id \in where.tenant_ids
        /\ where.status # "" => d.status = where.status
        /\ where.hostname # "" =>
              Includes(ToLowerCase(d.hostname), ToLowerCase(where.hostname))))

\* Handler of GET /domains/resolve
ResolveResult(table, statuses, q) ==
    LET i == FindDomainByHostname(table, ToLowerCase(q.hostname))
    IN  IF i = 0
        THEN [reply |-> Reply(404, "RESOURCE_NOT_FOUND", "Domain not found or not verified"),
              data |-> <<>>]
        ELSE IF table[i].status # "VERIFIED" \/ statuses[table[i].tenant_id] # "ACTIVE"
        THEN [reply |-> Reply(404, "RESOURCE_NOT_FOUND", "Domain not found or not verified"),
              data |-> <<>>]
        ELSE [reply |-> Reply(200, "", ""),
              data |-> <<[tenant_id |-> table[i].tenant_id, domain_status |-> table[i].status]>>]

\* The lookup and the access block that PUT /:id and POST /:id/verify share
DomainAccess(table, u, id) ==
    LET i == FindDomainById(table, id)
    IN  IF i = 0
        THEN HookSent(Reply(404, "RESOURCE_NOT_FOUND", "Domain not found"))
        ELSE IF u.role # PLATFORM_ADMIN /\ table[i].tenant_id \notin UserTenantIds(u)
        THEN HookSent(Reply(403, "FORBIDDEN", "Access denied to this domain"))
        ELSE HookPass(u, NoTenant, 0)

\* db.domain.update({ where: { id }, data: body }) of PUT /:id: status is
\* written when the body carries one
UpdateDomain(table, id, b) ==
    [i \in 1..Len(table) |->
        IF table[i].id = id /\ b.status # ""
        THEN [table[i] EXCEPT !.status = b.status]
        ELSE table[i]]

\* The simulated verification of POST /:id/verify (every hostname of the
\* model has a valid format)
VerifiedStatus(hostname) ==
    IF ~Includes(hostname, "invalid") THEN "VERIFIED" ELSE "FAILED"

VerifyDomain(table, id) ==
    [i \in 1..Len(table) |->
        IF table[i].id = id
        THEN [table[i] EXCEPT !.status = VerifiedStatus(table[i].hostname)]
        ELSE table[i]]

\* Paths, query strings and bodies of the requests
DomainRequests ==
    {[method |-> "GET", url |-> "/domains",
      body |-> [NoBody EXCEPT !.tenant_id = t, !.status = st]] :
         t \in {"", "t1", "t3"}, st \in {"", "PENDING"}}
    \cup {[method |-> "GET", url |-> "/domains", body |-> [NoBody EXCEPT !.hostname = "DEMO"]]}
    \cup {[method |-> "GET", url |-> "/domains/resolve", body |-> [NoBody EXCEPT !.hostname = hn]] :
             hn \in {"demo.avantle.ai", "API.demo-company.com", "nonexistent.example.com"}}
    \cup {[method |-> "PUT", url |-> u, body |-> [NoBody EXCEPT !.status = st]] :
             u \in {"/domains/d2", "/domains/d9"}, st \in {"", "VERIFIED", "PENDING"}}
    \cup {[method |-> "POST", url |-> u, body |-> NoBody] :
             u \in {"/domains/d2/verify", "/domains/d3/verify"}}

InitDomains ==
    /\ memberships \in RequesterTables
    /\ tenantStatus \in {[t \in TenantIds |-> IF t = "t1" THEN st ELSE "ACTIVE"] :
                            st \in {"ACTIVE", "SUSPENDED"}}
    /\ Idle
    /\ call = NoCall
    /\ adminEmail = AdminEmail
    /\ NoSession
    /\ UsageIdle
    /\ partners = SeedPartners
    /\ tenantCount = SeedTenantCount
    /\ domains = SeedDomains
    /\ tenantPlans = <<>>
    /\ handlers = [p \in HandlerIds |-> NoHandler]

\* A request for a domains route arrives with Authorization header h and
\* meets the hooks
DomainRequestArrives(p) ==
    /\ handlers[p].pc = "idle"
    /\ \E h \in Headers(memberships), r \in DomainRequests :
          LET o == OnRequest(memberships, r.method, r.url, h, TRUE)
          IN  handlers' = [handlers EXCEPT ![p] =
                              Arrived(r.method, r.url, h, r.body, o, "handler")]
    /\ UNCHANGED <<partners, tenantCount, domains, tenantPlans>>
    /\ UNCHANGED <<memberships, tenantStatus, pipelineVars, call, sessionVars, prior, usageVars>>

\* Handler of GET /domains
GetDomains(p) ==
    /\ handlers[p].pc = "handler"
    /\ handlers[p].method = "GET" /\ handlers[p].url = "/domains"
    /\ handlers' = [handlers EXCEPT ![p] =
          [@ EXCEPT !.pc = "done", !.reply = Reply(200, "", ""),
                    !.data = ListDomains(domains, ListWhere(handlers[p].user, handlers[p].body))]]
    /\ UNCHANGED <<partners, tenantCount, domains, tenantPlans>>
    /\ UNCHANGED <<memberships, tenantStatus, pipelineVars, call, sessionVars, prior, usageVars>>

\* Handler of GET /domains/resolve
GetDomainsResolve(p) ==
    /\ handlers[p].pc = "handler"
    /\ handlers[p].method = "GET" /\ handlers[p].url = "/domains/resolve"
    /\ LET r == ResolveResult(domains, tenantStatus, handlers[p].body)
       IN  handlers' = [handlers EXCEPT ![p] =
              [@ EXCEPT !.pc = "done", !.reply = r.reply, !.data = r.data]]
    /\ UNCHANGED <<partners, tenantCount, domains, tenantPlans>>
    /\ UNCHANGED <<memberships, tenantStatus, pipelineVars, call, sessionVars, prior, usageVars>>

\* Handler of PUT /domains/:id
PutDomain(p) ==
    /\ handlers[p].pc = "handler"
    /\ handlers[p].method = "PUT" /\ StartsWith(handlers[p].url, "/domains/")
    /\ LET id == DomainParam(handlers[p].url)
           a == DomainAccess(domains, handlers[p].user, id)
       IN  /\ domains' = IF a.sent THEN domains ELSE UpdateDomain(domains, id, handlers[p].body)
           /\ handlers' = [handlers EXCEPT ![p] =
                 [@ EXCEPT !.pc = "done",
                           !.reply = IF a.sent THEN a.reply ELSE Reply(200, "", ""),
                           !.wrote = ~a.sent]]
    /\ UNCHANGED <<partners, tenantCount, tenantPlans>>
    /\ UNCHANGED <<memberships, tenantStatus, pipelineVars, call, sessionVars, prior, usageVars>>

\* Handler of POST /domains/:id/verify
PostDomainVerify(p) ==
    /\ handlers[p].pc = "handler"
    /\ handlers[p].method = "POST" /\ StartsWith(handlers[p].url, "/domains/")
    /\ LET id == DomainParam(handlers[p].url)
           a == DomainAccess(domains, handlers[p].user, id)
       IN  /\ domains' = IF a.sent THEN domains ELSE VerifyDomain(domains, id)
           /\ handlers' = [handlers EXCEPT ![p] =
                 [@ EXCEPT !.pc = "done",
                           !.reply = IF a.sent THEN a.reply ELSE Reply(200, "", ""),
                           !.wrote = ~a.sent]]
    /\ UNCHANGED <<partners, tenantCount, tenantPlans>>
    /\ UNCHANGED <<memberships, tenantStatus, pipelineVars, call, sessionVars, prior, usageVars>>

NextDomains ==
    \/ DomainRequestArrives("h1")
    \/ GetDomains("h1")
    \/ GetDomainsResolve("h1")
    \/ PutDomain("h1")
    \/ PostDomainVerify("h1")
    \/ Respond("h1")

SpecDomains == InitDomains /\ [][NextDomains]_vars

-----------------------------------------------------------------------------
(* Claims on domains (SpecDomains) *)

\* The domain of this hostname exists, is VERIFIED and its tenant is ACTIVE
Resolvable(hostname) ==
    \E i \in 1..Len(domains) :
        /\ domains[i].hostname = ToLowerCase(hostname)
        /\ domains[i].status = "VERIFIED"
        /\ tenantStatus[domains[i].tenant_id] = "ACTIVE"

\* C25 (as stated): GET /domains/resolve called without any token answers
\* with the tenant exactly when the domain exists, is VERIFIED and its tenant
\* is ACTIVE, and with 404 RESOURCE_NOT_FOUND and no tenant data otherwise.
C25_ResolveIsPublic ==
    \A p \in HandlerIds :
        (handlers[p].pc = "done" /\ handlers[p].url = "/domains/resolve"
            /\ handlers[p].auth = "absent") =>
            IF Resolvable(handlers[p].body.hostname)
            THEN /\ handlers[p].reply.status = 200
                 /\ Len(handlers[p].data) = 1
            ELSE /\ handlers[p].reply.status = 404
                 /\ handlers[p].reply.code = "RESOURCE_NOT_FOUND"
                 /\ handlers[p].data = <<>>

\* C27 (as stated): GET /domains by a caller other than PLATFORM_ADMIN
\* returns only domains whose tenant_id is in the tenant_context of the
\* token, whatever the query filters.
C27_ListStaysInTenantContext ==
    \A p \in HandlerIds :
        (handlers[p].pc = "done" /\ handlers[p].method = "GET"
            /\ handlers[p].url = "/domains" /\ handlers[p].auth = "valid"
            /\ handlers[p].tokenRole # PLATFORM_ADMIN) =>
            \A i \in 1..Len(handlers[p].data) :
                handlers[p].data[i].tenant_id \in handlers[p].tokenTenants

\* C28 (as stated): a principal whose role lacks domains:verify (TENANT_ADMIN,
\* TENANT_USER) never causes a domain to become VERIFIED: whenever a domain
\* turns VERIFIED, the request that did it carries a role that holds
\* domains:verify.
C28_VerifiedOnlyThroughVerify ==
    [][\A i \in 1..Len(domains) :
          (domains'[i].status = "VERIFIED" /\ domains[i].status # "VERIFIED") =>
              \E p \in HandlerIds :
                  /\ handlers[p].pc = "handler"
                  /\ handlers'[p].wrote
                  /\ "domains:verify" \in AccessRules[handlers[p].tokenRole]]_vars

-----------------------------------------------------------------------------
(* SpecPlans: POST /plans/attach, two requests in flight *)

\* Most rows of tenant_plans at which a further attach request is taken
MaxPlanRows == 3

PlanIds == {"free", "basic"}

\* tenant_plans as seeded: tenant t1 is on the free plan; effective_to is
\* "null" for the current plan, else the time the plan ended
SeedTenantPlans == <<[tenant_id |-> "t1", plan_id |-> "free", effective_to |-> "null"]>>

\* Rows of tenant t whose effective_to is null
CurrentPlans(table, t) ==
    {i \in 1..Len(table) : table[i].tenant_id = t /\ table[i].effective_to = "null"}

\* preHandler of POST /plans/attach
AttachPreHandler(u) ==
    IF u.role \notin {PLATFORM_ADMIN, PARTNER_ADMIN}
    THEN HookSent(Reply(403, "FORBIDDEN", "Insufficient permissions to attach plans"))
    ELSE HookPass(u, NoTenant, 0)

\* The handler of POST /plans/attach up to updateMany: the tenant exists, a
\* PARTNER_ADMIN has it in its tenant_context, the plan exists
AttachChecks(u, b) ==
    IF b.tenant_id \notin TenantIds
    THEN HookSent(Reply(404, "RESOURCE_NOT_FOUND", "Tenant not found"))
    ELSE IF u.role = PARTNER_ADMIN /\ b.tenant_id \notin UserTenantIds(u)
    THEN HookSent(Reply(403, "FORBIDDEN", "Access denied to this tenant"))
    ELSE IF b.plan_id \notin PlanIds
    THEN HookSent(Reply(404, "RESOURCE_NOT_FOUND", "Plan not found"))
    ELSE HookPass(u, NoTenant, 0)

\* db.tenantPlan.updateMany({ where: { tenant_id, effective_to: null },
\*                            data: { effective_to: effectiveFrom } })
EndCurrentPlans(table, t) ==
    [i \in 1..Len(table) |->
        IF table[i].tenant_id = t /\ table[i].effective_to = "null"
        THEN [table[i] EXCEPT !.effective_to = "ended"]
        ELSE table[i]]

\* db.tenantPlan.create({ data: { tenant_id, plan_id, effective_from } })
NewTenantPlan(table, b) ==
    Append(table, [tenant_id |-> b.tenant_id, plan_id |-> b.plan_id, effective_to |-> "null"])

\* The requester u1 has no membership, or is PARTNER_ADMIN of t1
InitPlans ==
    /\ memberships \in {<<>>, <<[user_id |-> "u1", tenant_id |-> "t1", role |-> PARTNER_ADMIN]>>}
    /\ tenantStatus = [t \in TenantIds |-> "ACTIVE"]
    /\ Idle
    /\ call = NoCall
    /\ adminEmail = AdminEmail
    /\ NoSession
    /\ UsageIdle
    /\ partners = SeedPartners
    /\ tenantCount = SeedTenantCount
    /\ domains = <<>>
    /\ tenantPlans = SeedTenantPlans
    /\ handlers = [p \in HandlerIds |-> NoHandler]

\* POST /plans/attach arrives with Authorization header h and meets the
\* hooks
PostPlansAttach(p) ==
    /\ handlers[p].pc = "idle"
    /\ Len(tenantPlans) < MaxPlanRows
    /\ \E h \in Headers(memberships), t \in {"t1", "t9"}, pl \in PlanIds \cup {"gold"} :
          LET b == [NoBody EXCEPT !.tenant_id = t, !.plan_id = pl]
              o == OnRequest(memberships, "POST", "/plans/attach", h, TRUE)
          IN  handlers' = [handlers EXCEPT ![p] =
                              Arrived("POST", "/plans/attach", h, b, o, "preHandler")]
    /\ UNCHANGED <<partners, tenantCount, domains, tenantPlans>>
    /\ UNCHANGED <<memberships, tenantStatus, pipelineVars, call, sessionVars, prior, usageVars>>

\* The preHandler runs, then the handler up to the await of updateMany
AttachLookups(p) ==
    /\ handlers[p].pc = "preHandler"
    /\ handlers[p].url = "/plans/attach"
    /\ LET pre == AttachPreHandler(handlers[p].user)
           c == AttachChecks(handlers[p].user, handlers[p].body)
       IN  handlers' = [handlers EXCEPT ![p] =
              IF pre.sent
              THEN [@ EXCEPT !.pc = AfterHook(pre.sent, "end"), !.reply = pre.reply]
              ELSE [@ EXCEPT !.pc = AfterHook(c.sent, "end"),
                             !.reply = IF c.sent THEN c.reply ELSE @]]
    /\ UNCHANGED <<partners, tenantCount, domains, tenantPlans>>
    /\ UNCHANGED <<memberships, tenantStatus, pipelineVars, call, sessionVars, prior, usageVars>>

\* db.tenantPlan.updateMany resolves: the current plan of the tenant is ended
EndCurrentPlan(p) ==
    /\ handlers[p].pc = "end"
    /\ tenantPlans' = EndCurrentPlans(tenantPlans, handlers[p].body.tenant_id)
    /\ handlers' = [handlers EXCEPT ![p] =
          [@ EXCEPT !.pc = "attach",
                    !.count = Cardinality(CurrentPlans(tenantPlans, handlers[p].body.tenant_id))]]
    /\ UNCHANGED <<partners, tenantCount, domains>>
    /\ UNCHANGED <<memberships, tenantStatus, pipelineVars, call, sessionVars, prior, usageVars>>

\* db.tenantPlan.create resolves and the handler replies 201
CreateTenantPlan(p) ==
    /\ handlers[p].pc = "attach"
    /\ tenantPlans' = NewTenantPlan(tenantPlans, handlers[p].body)
    /\ handlers' = [handlers EXCEPT ![p] =
          [@ EXCEPT !.pc = "done", !.reply = Reply(201, "", ""), !.wrote = TRUE]]
    /\ UNCHANGED <<partners, tenantCount, domains>>
    /\ UNCHANGED <<memberships, tenantStatus, pipelineVars, call, sessionVars, prior, usageVars>>

NextPlans ==
    \/ \E p \in HandlerIds : PostPlansAttach(p)
    \/ \E p \in HandlerIds : AttachLookups(p)
    \/ \E p \in HandlerIds : EndCurrentPlan(p)
    \/ \E p \in HandlerIds : CreateTenantPlan(p)
    \/ \E p \in HandlerIds : Respond(p)

SpecPlans == InitPlans /\ [][NextPlans]_vars

-----------------------------------------------------------------------------
(* Claims on plan assignments (SpecPlans) *)

\* C29 (as stated): after any interleaving of POST /plans/attach requests
\* for one tenant, at most one tenant-plan row of the tenant has
\* effective_to = null.
C29_AtMostOneCurrentPlan ==
    \A t \in TenantIds : Cardinality(CurrentPlans(tenantPlans, t)) <= 1

====
